---- MODULE Spec2Model ----
(***************************************************************************)
(* Idempotent incremental-sync engine of the GSC -> BigQuery loaders.      *)
(*                                                                         *)
(* Four scripts of the repository are modelled as state machines over one  *)
(* append-only sink table each:                                            *)
(*   "rev3"   gsc_to_bq_rev3_full.py                                       *)
(*   "web"    src/scripts/gsc_to_bq_searchtype_web_fullfetch.py            *)
(*   "others" src/scripts/gsc_to_bq_searchtype_others_fullfetch.py         *)
(*   "sa"     src/scripts/gsc_to_bq_searchappearance_fullfetch.py          *)
(* A behaviour fixes the script and the content of the reporting source,   *)
(* then executes up to MaxRuns runs of the script against the same sink.   *)
(*                                                                         *)
(* Text values are sequences of pieces; a piece is a run of characters     *)
(* (a word, a blank " ", a separator "/" or "|").  SHA-256 is taken to be  *)
(* injective: a unique_key is the joined text that the code hashes.        *)
(***************************************************************************)
EXTENDS Naturals, Integers, Sequences, FiniteSets, TLC

VARIABLES
    script,          \* which script this behaviour executes
    data,            \* the source content: indices into the script's facts
    country_map,     \* COUNTRY_MAP: the country table the web and others scripts load
    sink,            \* stored rows of the raw fact table, in load order
    run,             \* number of the current run
    debug,           \* DEBUG_MODE / debug flag of the current run
    pc,              \* position of the run
    pass,            \* index of the current fetch loop in the script's pass list
    start_row,       \* pagination cursor of the current fetch loop
    existing_keys,   \* the in-memory Dedup Index
    existing_bq_keys,\* web sitewide pass: keys loaded by get_existing_sitewide_keys
    batch_new,       \* rows handed to the next upload_to_bq call
    acc_rows,        \* rows a pass accumulates (noindex_rows / all_rows / all_new_rows)
    inserted,        \* inserted tally per function of the run
    reqLog,          \* requests issued by the current fetch loop
    srcFails,        \* source requests that raised so far
    writeFails,      \* sink writes that raised so far
    hist             \* observations of the run (not program state)

vars == <<script, data, country_map, sink, run, debug, pc, pass, start_row, existing_keys,
          existing_bq_keys, batch_new, acc_rows, inserted, reqLog, srcFails,
          writeFails, hist>>

----------------------------------------------------------------------------
(* Bounds of the model *)

\* rows per page; the scripts set 25000
ROW_LIMIT == 2

\* the others script's fetch_gsc_data gives a loop up after this many pages
MAX_PAGES == 10000
\* runs of the script in one behaviour
MaxRuns == 2
\* source requests that may raise in one behaviour
MaxSrcFail == 1
\* sink writes that may raise in one behaviour
MaxWriteFail == 1

----------------------------------------------------------------------------
(* Text *)

None == <<"<None>">>
Blank == " "
Slash == "/"
Bar == "|"

Min(a, b) == IF a < b THEN a ELSE b

\* number of characters of a piece
PieceLen(c) ==
    CASE c = "2025-09-01" -> 10
      [] c = "2025-09-02" -> 10
      [] c = "2025-09-03" -> 10
      [] c = "2025-09-04" -> 10
      [] c = "T00:00:00" -> 9
      [] c = "<None>" -> 4
      [] c = Blank -> 1
      [] c = Slash -> 1
      [] c = Bar -> 1
      [] c \in {"a", "b"} -> 1
      [] c \in {"x.com", "X.COM"} -> 5
      [] c \in {"mobile", "MOBILE"} -> 6
      [] OTHER -> 3

\* str.lower() on one piece
LowerPiece(c) ==
    CASE c = "Buy" -> "buy"
      [] c = "X.COM" -> "x.com"
      [] c = ".COM" -> ".com"
      [] c = "USA" -> "usa"
      [] c = "MOBILE" -> "mobile"
      [] c = "FAQ" -> "faq"
      [] c = "Valid" -> "valid"
      [] c = "Invalid" -> "invalid"
      [] c = "__SITE_TOTAL__" -> "__site_total__"
      [] c = "__PAGE_TOTAL__" -> "__page_total__"
      [] c = "__NO_INDEX__" -> "__no_index__"
      [] c = "__NO_PAGE__" -> "__no_page__"
      [] c = "__NO_COUNTRY__" -> "__no_country__"
      [] c = "__NO_DEVICE__" -> "__no_device__"
      [] c = "__NO_APPEARANCE__" -> "__no_appearance__"
      [] OTHER -> c

py_lower(s) == [i \in DOMAIN s |-> LowerPiece(s[i])]

\* str.upper() on one piece
UpperPiece(c) ==
    CASE c = "usa" -> "USA"
      [] c = "x.com" -> "X.COM"
      [] c = "mobile" -> "MOBILE"
      [] c = "faq" -> "FAQ"
      [] c \in {"buy", "Buy"} -> "BUY"
      [] c = "a" -> "A"
      [] c = "b" -> "B"
      [] OTHER -> c

py_upper(s) == [i \in DOMAIN s |-> UpperPiece(s[i])]

RECURSIVE py_lstrip(_)
py_lstrip(s) ==
    IF s # <<>> /\ Head(s) = Blank THEN py_lstrip(Tail(s)) ELSE s

RECURSIVE py_rstrip(_, _)
py_rstrip(s, ch) ==
    IF s # <<>> /\ s[Len(s)] = ch THEN py_rstrip(SubSeq(s, 1, Len(s) - 1), ch) ELSE s

py_strip(s) == py_rstrip(py_lstrip(s), Blank)

\* s[:n], n counted in characters
RECURSIVE py_prefix(_, _)
py_prefix(s, n) ==
    IF s = <<>> \/ n < PieceLen(Head(s)) THEN <<>>
    ELSE <<Head(s)>> \o py_prefix(Tail(s), n - PieceLen(Head(s)))

\* "|".join(parts)
RECURSIVE py_join(_)
py_join(parts) ==
    IF parts = <<>> THEN <<>>
    ELSE IF Len(parts) = 1 THEN parts[1]
    ELSE parts[1] \o <<Bar>> \o py_join(Tail(parts))

\* (v or '')
OrEmpty(v) == IF v = None THEN <<>> ELSE v

----------------------------------------------------------------------------
(* The reporting source *)

\* days of the requested range START_DATE .. END_DATE (inclusive)
NDays == 2
\* facts the source may hold
NFacts == 4

Day(n) ==
    CASE n = 1 -> <<"2025-09-01">>
      [] n = 2 -> <<"2025-09-02">>
      [] n = 3 -> <<"2025-09-03">>
      [] OTHER -> <<"2025-09-04">>

Days == 1 .. NDays
START_DATE == Day(1)
END_DATE == Day(NDays)

Fact(d, q, p, c, dv, st, sa) ==
    [date |-> d, query |-> q, page |-> p, country |-> c, device |-> dv,
     searchType |-> st, searchAppearance |-> sa]

PageA == <<"x.com", Slash, "a">>
PageB == <<"x.com", Slash, "b">>

\* the facts a script's source may hold, in the order the source reports them;
\* facts beyond the fourth fall on the last day of the range
FactsSA ==
    [i \in 1 .. NFacts |->
        CASE i = 1 -> Fact(Day(1), None, None, None, None, "web", <<"FAQ">>)
          [] i = 2 -> Fact(Day(1), None, None, None, None, "web", <<"amp">>)
          [] i = 3 -> Fact(Day(1), None, None, None, None, "web", <<Blank, "faq">>)
          [] OTHER -> Fact(Day(NDays), None, None, None, None, "web", <<"amp">>)]

FactsOthers ==
    [i \in 1 .. NFacts |->
        CASE i = 1 -> Fact(Day(1), <<"Buy", Blank>>, PageA \o <<Slash>>, <<"usa">>, <<"MOBILE">>, "image", None)
          [] i = 2 -> Fact(Day(1), <<"faq">>, <<>>, <<"usa">>, <<"mobile">>, "image", None)
          [] i = 3 -> Fact(Day(1), <<"buy">>, PageA, <<"usa">>, <<"mobile">>, "video", None)
          [] OTHER -> Fact(Day(NDays), <<"faq">>, PageB, <<"usa">>, <<"mobile">>, "news", None)]

FactsWeb ==
    [i \in 1 .. NFacts |->
        CASE i = 1 -> Fact(Day(1), <<"Buy", Blank>>, PageA \o <<Slash>>, <<"usa">>, <<"MOBILE">>, "web", None)
          [] i = 2 -> Fact(Day(1), <<"faq">>, <<>>, <<"usa">>, <<"mobile">>, "web", None)
          [] i = 3 -> Fact(Day(1), <<"buy">>, PageA, <<"usa">>, <<"mobile">>, "web", None)
          [] OTHER -> Fact(Day(NDays), <<"faq">>, PageB, <<"usa">>, <<"mobile">>, "web", None)]

Facts(s) == IF s \in {"sa", "sa1"} THEN FactsSA ELSE IF s = "others" THEN FactsOthers ELSE FactsWeb

Scripts == {"rev3", "web", "others", "sa", "sa1"}

\* the source holds the first n facts, for some n
DataSets == {1 .. n : n \in 0 .. NFacts}

\* a query shape: dimension list, searchType, and the day range startDate..endDate
Request(dims, st, d1, d2) == [dims |-> dims, searchType |-> st, d1 |-> d1, d2 |-> d2]

InRange(f, req) == \E n \in req.d1 .. req.d2 : f.date = Day(n)

Matches(s, dt, req) ==
    {i \in dt : Facts(s)[i].searchType = req.searchType /\ InRange(Facts(s)[i], req)}

KeysOf(f, dims) == [j \in DOMAIN dims |-> f[dims[j]]]

\* the rows the source holds for a query shape: one row per distinct value of
\* the dimension list, with its four metrics: clicks and impressions summed
\* over the facts it groups (a fact is two impressions, one of them clicked),
\* ctr in percent, position the rank of its first fact (c: the count, taken once)
\* the facts of m that fall in the group of key k
GroupOf(fs, m, dims, k) == {j \in m : KeysOf(fs[j], dims) = k}

\* the row of the group of key k, first met at fact i; c facts fall in it
GroupRow(k, c, i) ==
    [keys |-> k, clicks |-> c, impressions |-> 2 * c, ctr |-> 50, position |-> i]

\* the row fact i opens among the matching facts m: none if i does not match
\* or an earlier fact has its key
RowAt(m, g, k, i) ==
    IF i \in m /\ \A j \in g : j >= i THEN <<GroupRow(k, Cardinality(g), i)>> ELSE <<>>

RowOfFact(fs, dims, m, k, i) == RowAt(m, GroupOf(fs, m, dims, k), k, i)

RECURSIVE Rows(_, _, _, _)
Rows(s, dt, req, i) ==
    IF i > NFacts THEN <<>>
    ELSE RowOfFact(Facts(s), req.dims, Matches(s, dt, req), KeysOf(Facts(s)[i], req.dims), i)
         \o Rows(s, dt, req, i + 1)

\* the query shapes the scripts issue
DimLists ==
    {<<"date", "query", "page", "country", "device">>, <<"date", "query", "page">>,
     <<"date", "query", "country">>, <<"date", "query", "device">>, <<"date", "query">>,
     <<"date", "page">>, <<"date">>, <<"searchAppearance">>}

Requests ==
    {Request(dims, st, d1, d2) : dims \in DimLists, st \in {"web", "image", "video", "news"},
                                 d1 \in Days, d2 \in Days}

\* the source's answer to every query shape, for every content
Answers == [s \in {"sa", "others", "web"}, dt \in DataSets, req \in Requests |-> Rows(s, dt, req, 1)]

\* searchanalytics().query(...).execute() -> resp.get('rows', [])
\* the page of at most ROW_LIMIT rows that starts after row startRow
PageOf(all, startRow) == SubSeq(all, startRow + 1, Min(startRow + ROW_LIMIT, Len(all)))

query(s, dt, req, startRow) ==
    PageOf(Answers[IF s = "rev3" THEN "web" ELSE IF s = "sa1" THEN "sa" ELSE s, dt, req], startRow)

----------------------------------------------------------------------------
(* Rows and the sink *)

\* the four metrics of a row
Metrics(cl, im, ctr, pos) == [clicks |-> cl, impressions |-> im, ctr |-> ctr, position |-> pos]

\* variant: a placeholder has zero clicks and no value in the other metrics
ZeroClicksOnly == Metrics(0, -1, -1, -1)

\* "Clicks": 0, "Impressions": 0, "CTR": 0, "Position": 0
ZeroMetrics == Metrics(0, 0, 0, 0)

\* a logical row with the metrics of m (a source row or a Metrics record); a
\* column a script does not have is None
Row(d, q, p, c, dv, sa, m, st, k) ==
    [Date |-> d, Query |-> q, Page |-> p, Country |-> c, Device |-> dv,
     SearchAppearance |-> sa, Clicks |-> m.clicks, Impressions |-> m.impressions,
     CTR |-> m.ctr, Position |-> m.position, SearchType |-> st, unique_key |-> k]

\* pd.to_datetime(df['Date']) loaded into a DATE column
to_date(d) == py_prefix(d, 10)

StoredDates(df) == [i \in DOMAIN df |-> [df[i] EXCEPT !.Date = to_date(df[i].Date)]]

\* the country table: pairs of an upper-case country code and a country name;
\* the table the scripts read may hold the code of the facts or not
NoCountryTable == {}
\* generate_gsc_dim_country.py, build_country_dataframe(): one record per
\* pycountry country (alpha-3 code, name); the codes of the modelled source
build_country_dataframe == {<<<<"USA">>, <<"United States">>>>}
CountryTables == {NoCountryTable, build_country_dataframe}

\* map_one(val) of robust_map_country_column: the name the table holds for
\* the upper-cased, stripped code; None for a missing or blank value and for
\* a code the table does not hold (every pycountry lookup raises NameError,
\* which the function catches)
country_name(s_up, table) ==
    IF \E e \in table : e[1] = s_up
    THEN (CHOOSE e \in table : e[1] = s_up)[2]
    ELSE None

map_one(val, table) ==
    IF val = None \/ py_strip(val) = <<>> THEN None
    ELSE country_name(py_upper(py_strip(val)), table)

\* df[new_col] = df[country_col].apply(map_one)
robust_map_country_column(df, table) ==
    [i \in DOMAIN df |-> [df[i] EXCEPT !.Country = map_one(@, table)]]

SinkKeys(snk) == {snk[i].unique_key : i \in DOMAIN snk}

\* metrics are numbers; a metric that is None is a negative number
IsNoneMetric(v) == v < 0

\* variant: the rows taken as new are not recorded in the index handed back
RECURSIVE FilterNew_rows(_, _)
FilterNew_rows(rows, keys) ==
    IF rows = <<>> THEN <<>>
    ELSE IF Head(rows).unique_key \in keys THEN FilterNew_rows(Tail(rows), keys)
    ELSE <<Head(rows)>> \o FilterNew_rows(Tail(rows), keys \cup {Head(rows).unique_key})

FilterNew_forgets(rows, keys) == [new |-> FilterNew_rows(rows, keys), keys |-> keys]

\* variant: no duplicate check, every row of the page is taken as new
FilterNew_takes_all(rows, keys) ==
    [new |-> rows, keys |-> keys \cup {rows[i].unique_key : i \in DOMAIN rows}]

\* the duplicate check of the fetch loops:
\*   if key not in existing_keys: existing_keys.add(key); batch_new.append(row)
RECURSIVE FilterNew(_, _)
FilterNew(rows, keys) ==
    IF rows = <<>> THEN [new |-> <<>>, keys |-> keys]
    ELSE LET r == Head(rows)
         IN  IF r.unique_key \in keys
             THEN FilterNew(Tail(rows), keys)
             ELSE LET rest == FilterNew(Tail(rows), keys \cup {r.unique_key})
                  IN  [new |-> <<r>> \o rest.new, keys |-> rest.keys]

----------------------------------------------------------------------------
(* Bookkeeping shared by the four state machines *)

\* observations of a run: the length of the sink and the number of failed
\* writes when it started, whether the load of the Dedup Index failed, the
\* passes and days a source exception surfaced in, the placeholder rows the
\* gap-fill created, and whether the run before it was a complete, non-debug
\* run whose sink reads and writes all succeeded, and the unique_keys of the
\* frames handed to upload_to_bq so far, and whether the access check failed,
\* and the frame of a call of upload_to_bq on its own as the caller handed it
NoHist ==
    [sink0 |-> 0, wf0 |-> 0, idxFail |-> FALSE, aborted |-> {}, fetch_error |-> {},
     placeholders |-> <<>>, prevClean |-> FALSE, offered |-> <<>>, accessFail |-> FALSE,
     handed |-> <<>>]

CleanRun ==
    pc = "done" /\ ~debug /\ ~hist.idxFail /\ writeFails = hist.wf0

\* a request of the current fetch loop, as the source saw it
Req(p, sr, ok) == [pass |-> p, startRow |-> sr, ok |-> ok]

\* the log holds the requests of the most recent fetch loop
LogReq(ok) ==
    IF reqLog # <<>> /\ reqLog[1].pass # pass
    THEN <<Req(pass, start_row, ok)>>
    ELSE Append(reqLog, Req(pass, start_row, ok))

\* the call upload_to_bq(df) is made: the keys of df are on record
Offer(df) == [hist EXCEPT !.offered = @ \o [i \in DOMAIN df |-> df[i].unique_key]]

NoInserted == [main |-> 0, noindex |-> 0, b7 |-> 0, site |-> 0]

\* the first step of a script: rev3 checks its access to the site while the
\* module is loaded, the others start with the load of the Dedup Index
entry(s) == IF s = "rev3" THEN "check_access" ELSE "load_keys"

Init ==
    /\ script \in Scripts
    /\ data \in DataSets
    /\ country_map \in (IF script \in {"web", "others"} THEN CountryTables ELSE {NoCountryTable})
    /\ sink = <<>>
    /\ run = 1
    /\ debug \in BOOLEAN
    /\ pc = entry(script)
    /\ pass = 1
    /\ start_row = 0
    /\ existing_keys = {}
    /\ existing_bq_keys = {}
    /\ batch_new = <<>>
    /\ acc_rows = <<>>
    /\ inserted = NoInserted
    /\ reqLog = <<>>
    /\ srcFails = 0
    /\ writeFails = 0
    /\ hist = NoHist

\* the script is started again over the same range against the same sink
StartRun ==
    /\ pc \in {"done", "aborted", "exit_1", "crashed"}
    /\ run < MaxRuns
    /\ run' = run + 1
    /\ debug' \in BOOLEAN
    /\ pc' = entry(script)
    /\ pass' = 1
    /\ start_row' = 0
    /\ existing_keys' = {}
    /\ existing_bq_keys' = {}
    /\ batch_new' = <<>>
    /\ acc_rows' = <<>>
    /\ inserted' = NoInserted
    /\ reqLog' = <<>>
    /\ hist' = [NoHist EXCEPT !.sink0 = Len(sink), !.wf0 = writeFails,
                               !.prevClean = CleanRun]
    /\ UNCHANGED <<script, data, country_map, sink, srcFails, writeFails>>

\* generate_gsc_dim_country.py, write_to_bigquery(df): the load job replaces
\* (WRITE_TRUNCATE) the country table with the generated records. The loaders
\* read the table once, when their module is loaded, so a job that ends while
\* a run is under way shows in the next run: the job is placed between two
\* runs. A job that raises leaves the table as it was.
write_to_bigquery ==
    /\ script \in {"web", "others"}
    /\ pc \in {"done", "aborted", "exit_1", "crashed"}
    /\ run < MaxRuns
    /\ country_map # build_country_dataframe
    /\ country_map' = build_country_dataframe
    /\ UNCHANGED <<script, data, sink, run, debug, pc, pass, start_row,
                   existing_keys, existing_bq_keys, batch_new, acc_rows, inserted, reqLog,
                   srcFails, writeFails, hist>>

----------------------------------------------------------------------------
(* gsc_to_bq_rev3_full.py *)

rev3_stable_key(row) ==
    LET q == py_lower(py_strip(OrEmpty(row.Query)))
        p == py_rstrip(py_lower(py_strip(OrEmpty(row.Page))), Slash)
        d == py_prefix(row.Date, 10)
    IN  py_join(<<q, p, d>>)

rev3_request == Request(<<"date", "query", "page">>, "web", 1, NDays)

\* the new_rows_in_batch candidates of one page, before the duplicate check
rev3_rows(rows) ==
    [i \in DOMAIN rows |->
        LET r == rows[i]
            k == rev3_stable_key([Query |-> r.keys[2], Page |-> r.keys[3], Date |-> r.keys[1]])
        IN  Row(r.keys[1], r.keys[2], r.keys[3], None, None, None, r, None, k)]

\* variant: the Dedup Index is never loaded from the table
rev3_get_existing_keys_cold(snk, ok) == {}

\* get_existing_keys(): the keys of the table, or set() when the query raises
rev3_get_existing_keys(snk, ok) == IF ok THEN SinkKeys(snk) ELSE {}

\* variant: the load job stores the first row of the frame only
rev3_upload_to_bq_first_row_only(snk, df, dbg, ok) ==
    IF df = <<>> THEN snk
    ELSE IF dbg THEN snk
    ELSE IF ok THEN snk \o StoredDates(<<Head(df)>>)
    ELSE snk

\* upload_to_bq(df, debug): the table after the call
rev3_upload_to_bq(snk, df, dbg, ok) ==
    IF df = <<>> THEN snk
    ELSE IF dbg THEN snk
    ELSE IF ok THEN snk \o StoredDates(df)
    ELSE snk

\* variant: a full page ends the loop as well
rev3_advance_breaks_on_full_page(n) ==
    IF n <= ROW_LIMIT
    THEN pc' = "done" /\ start_row' = start_row
    ELSE pc' = "fetch" /\ start_row' = start_row + n

\* variant: the cursor counts pages, not rows
rev3_advance_counts_pages(n) ==
    IF n < ROW_LIMIT
    THEN pc' = "done" /\ start_row' = start_row
    ELSE pc' = "fetch" /\ start_row' = start_row + 1

\* the end of the loop body: break on a short page, else advance the cursor
rev3_advance(n) ==
    IF n < ROW_LIMIT
    THEN /\ pc' = "done"
         /\ start_row' = start_row
    ELSE /\ pc' = "fetch"
         /\ start_row' = start_row + n

\* variant: a failed access check is reported and the script goes on
rev3_check_access_warns_only ==
    /\ script = "rev3"
    /\ pc = "check_access"
    /\ \E ok \in BOOLEAN :
          hist' = [hist EXCEPT !.accessFail = ~ok]
    /\ pc' = "load_keys"
    /\ UNCHANGED <<script, data, country_map, sink, run, debug, pass, start_row, existing_keys,
                   existing_bq_keys, batch_new, acc_rows, inserted, reqLog, srcFails,
                   writeFails>>

\* "Check access": service.sites().get(siteUrl=SITE_URL).execute() returns, or
\* raises and the process ends with sys.exit(1)
rev3_check_access ==
    /\ script = "rev3"
    /\ pc = "check_access"
    /\ \E ok \in BOOLEAN :
          /\ hist' = [hist EXCEPT !.accessFail = ~ok]
          /\ pc' = IF ok THEN "load_keys" ELSE "exit_1"
    /\ UNCHANGED <<script, data, country_map, sink, run, debug, pass, start_row, existing_keys,
                   existing_bq_keys, batch_new, acc_rows, inserted, reqLog, srcFails,
                   writeFails>>

rev3_load_keys ==
    /\ script = "rev3"
    /\ pc = "load_keys"
    /\ \E ok \in BOOLEAN :
          /\ existing_keys' = rev3_get_existing_keys(sink, ok)
          /\ hist' = [hist EXCEPT !.idxFail = ~ok]
    /\ pc' = "fetch"
    /\ UNCHANGED <<script, data, country_map, sink, run, debug, pass, start_row, existing_bq_keys,
                   batch_new, acc_rows, inserted, reqLog, srcFails, writeFails>>

\* variant: the failed request's page is skipped
rev3_query_raises_skips_page ==
    /\ script = "rev3"
    /\ pc = "fetch"
    /\ srcFails < MaxSrcFail
    /\ srcFails' = srcFails + 1
    /\ reqLog' = LogReq(FALSE)
    /\ start_row' = start_row + ROW_LIMIT
    /\ UNCHANGED <<script, data, country_map, sink, run, debug, pc, pass, existing_keys,
                   existing_bq_keys, batch_new, acc_rows, inserted, writeFails, hist>>

\* the request raises: sleep RETRY_DELAY and continue with the same start_row
rev3_query_raises ==
    /\ script = "rev3"
    /\ pc = "fetch"
    /\ srcFails < MaxSrcFail
    /\ srcFails' = srcFails + 1
    /\ reqLog' = LogReq(FALSE)
    /\ UNCHANGED <<script, data, country_map, sink, run, debug, pc, pass, start_row, existing_keys,
                   existing_bq_keys, batch_new, acc_rows, inserted, writeFails, hist>>

\* one page is returned and filtered against the Dedup Index
rev3_fetch_page ==
    /\ script = "rev3"
    /\ pc = "fetch"
    /\ LET rows == query(script, data, rev3_request, start_row)
           f == FilterNew(rev3_rows(rows), existing_keys)
       IN  /\ reqLog' = LogReq(TRUE)
           /\ IF rows = <<>>
              THEN /\ pc' = "done"
                   /\ UNCHANGED <<start_row, existing_keys, batch_new>>
              ELSE /\ existing_keys' = f.keys
                   /\ batch_new' = f.new
                   /\ IF f.new # <<>>
                      THEN pc' = "upload" /\ start_row' = start_row
                      ELSE rev3_advance(Len(rows))
    /\ UNCHANGED <<script, data, country_map, sink, run, debug, pass, existing_bq_keys, acc_rows,
                   inserted, srcFails, writeFails, hist>>

\* upload_to_bq(df_batch, debug); all_rows.extend(new_rows_in_batch)
rev3_upload ==
    /\ script = "rev3"
    /\ pc = "upload"
    /\ \E ok \in BOOLEAN :
          /\ ok \/ (~debug /\ writeFails < MaxWriteFail)
          /\ sink' = rev3_upload_to_bq(sink, batch_new, debug, ok)
          /\ writeFails' = IF ok THEN writeFails ELSE writeFails + 1
          /\ hist' = Offer(batch_new)
    /\ acc_rows' = acc_rows \o batch_new
    /\ batch_new' = <<>>
    /\ rev3_advance(Len(query(script, data, rev3_request, start_row)))
    /\ UNCHANGED <<script, data, country_map, run, debug, pass, existing_keys, existing_bq_keys,
                   inserted, reqLog, srcFails>>

\* the process is killed inside fetch_gsc_data: between two statements of the
\* loop, or with a page taken as new and not yet written; what it held in
\* memory is gone with it
rev3_crash ==
    /\ script = "rev3"
    /\ pc \in {"fetch", "upload"}
    /\ pc' = "crashed"
    /\ UNCHANGED <<script, data, country_map, sink, run, debug, pass, start_row, existing_keys,
                   existing_bq_keys, batch_new, acc_rows, inserted, reqLog, srcFails,
                   writeFails, hist>>

rev3_next ==
    \/ rev3_check_access \/ rev3_load_keys \/ rev3_query_raises \/ rev3_fetch_page
    \/ rev3_upload \/ rev3_crash

----------------------------------------------------------------------------
(* src/scripts/gsc_to_bq_searchtype_web_fullfetch.py *)

SITE_TOTAL == <<"__SITE_TOTAL__">>
PAGE_TOTAL == <<"__PAGE_TOTAL__">>
NO_INDEX == <<"__NO_INDEX__">>
NO_PAGE == <<"__NO_PAGE__">>
NO_COUNTRY == <<"__NO_COUNTRY__">>
NO_DEVICE == <<"__NO_DEVICE__">>
NO_APPEARANCE == <<"__NO_APPEARANCE__">>

\* canonical mapping: lowercase dim -> column of the row
Canonical(dim) ==
    CASE dim = "date" -> "Date"
      [] dim = "query" -> "Query"
      [] dim = "page" -> "Page"
      [] dim = "country" -> "Country"
      [] dim = "device" -> "Device"

web_key_part(row, dim) ==
    LET v == OrEmpty(row[Canonical(dim)])
    IN  IF dim = "date" THEN py_prefix(v, 10)
        ELSE LET t == py_lower(py_strip(v))
             IN  IF dim = "page" /\ t # <<>> THEN py_rstrip(t, Slash) ELSE t

generate_expanded_unique_key(row, dims) ==
    py_join([j \in DOMAIN dims |-> web_key_part(row, dims[j])])

\* the fetch loops of main(), in order: the five DIMENSION_BATCHES of
\* fetch_gsc_data, fetch_noindex_batch, Batch 7, fetch_sitewide_batch
web_dims(p) ==
    CASE p = 1 -> <<"date", "query", "page", "country", "device">>
      [] p = 2 -> <<"date", "query", "page">>
      [] p = 3 -> <<"date", "query", "country">>
      [] p = 4 -> <<"date", "query", "device">>
      [] p = 5 -> <<"date", "query">>
      [] p = 6 -> <<"date", "page">>
      [] p = 7 -> <<"date", "page">>
      [] OTHER -> <<"date">>

web_request(p) == Request(web_dims(p), "web", 1, NDays)

\* keys_dict.get(dim) or None
KeysDictGet(r, dims, dim) ==
    IF \E j \in DOMAIN dims : dims[j] = dim /\ r.keys[j] # <<>>
    THEN r.keys[CHOOSE j \in DOMAIN dims : dims[j] = dim]
    ELSE None

\* placeholder token for a missing or blank dimension, else the stripped value
OrToken(v, token) == IF v = None \/ py_strip(v) = <<>> THEN token ELSE py_strip(v)

\* fetch_gsc_data: the row built from one source row of batch p
web_main_row(r, p) ==
    LET dims == web_dims(p)
        d == KeysDictGet(r, dims, "date")
        q == KeysDictGet(r, dims, "query")
        row == Row(IF d = None THEN START_DATE ELSE d,
                   IF q = None THEN <<>> ELSE q,
                   OrToken(KeysDictGet(r, dims, "page"), NO_PAGE),
                   OrToken(KeysDictGet(r, dims, "country"), NO_COUNTRY),
                   OrToken(KeysDictGet(r, dims, "device"), NO_DEVICE),
                   NO_APPEARANCE, r, "web", None)
    IN  [row EXCEPT !.unique_key = generate_expanded_unique_key(row, dims)]

\* fetch_noindex_batch: rows whose page is blank become __NO_INDEX__ rows
web_noindex_rows(rows) ==
    LET keep == SelectSeq(rows, LAMBDA r : Len(r.keys) = 2 /\ py_strip(r.keys[2]) = <<>>)
    IN  [i \in DOMAIN keep |->
            LET row == Row(keep[i].keys[1], NO_INDEX, NO_INDEX, NO_COUNTRY, NO_DEVICE,
                           NO_APPEARANCE, keep[i], "web", None)
            IN  [row EXCEPT !.unique_key = generate_expanded_unique_key(row, web_dims(6))]]

\* Batch 7: rows whose page is not empty become __PAGE_TOTAL__ rows
web_b7_rows(rows) ==
    LET keep == SelectSeq(rows, LAMBDA r : Len(r.keys) = 2 /\ r.keys[2] # <<>>)
    IN  [i \in DOMAIN keep |->
            LET row == Row(keep[i].keys[1], PAGE_TOTAL, keep[i].keys[2], NO_COUNTRY, NO_DEVICE,
                           NO_APPEARANCE, keep[i], "web", None)
            IN  [row EXCEPT !.unique_key = generate_expanded_unique_key(row, web_dims(7))]]

\* the rows fetch_gsc_data builds from the page at cursor sr of dimension
\* batch p, before the duplicate check; computed once for every source
web_main_rows ==
    [dt \in DataSets, p \in 1 .. 5, sr \in 0 .. NFacts |->
        LET rows == query("web", dt, web_request(p), sr)
        IN  [i \in DOMAIN rows |-> web_main_row(rows[i], p)]]

\* the same for fetch_noindex_batch (p = 6) and Batch 7 (p = 7)
web_collect_rows ==
    [dt \in DataSets, p \in {6, 7}, sr \in 0 .. NFacts |->
        LET rows == query("web", dt, web_request(p), sr)
        IN  IF p = 6 THEN web_noindex_rows(rows) ELSE web_b7_rows(rows)]

\* fetch_sitewide_batch: the __SITE_TOTAL__ row of a date, real or placeholder
web_sitewide_row(d, m) ==
    LET row == Row(d, SITE_TOTAL, SITE_TOTAL, NO_COUNTRY, NO_DEVICE, NO_APPEARANCE,
                   m, "web", None)
    IN  [row EXCEPT !.unique_key = generate_expanded_unique_key(row, web_dims(8))]

web_sitewide_rows(rows) ==
    [i \in DOMAIN rows |-> web_sitewide_row(rows[i].keys[1], rows[i])]

\* get_existing_keys(): every key of the table, or set() when the query raises
web_get_existing_keys(snk, ok) == IF ok THEN SinkKeys(snk) ELSE {}

\* get_existing_sitewide_keys(): keys of the stored sitewide rows of the range
get_existing_sitewide_keys(snk) ==
    {snk[i].unique_key : i \in {j \in DOMAIN snk :
        /\ \E n \in Days : snk[j].Date = Day(n)
        /\ snk[j].Query = SITE_TOTAL
        /\ snk[j].Page = SITE_TOTAL}}

\* variant: the load job replaces the table (WRITE_TRUNCATE)
web_upload_to_bq_truncates(snk, df, dbg, ok) ==
    IF df = <<>> THEN [sink |-> snk, ret |-> 0]
    ELSE IF dbg THEN [sink |-> snk, ret |-> Len(df)]
    ELSE IF ok THEN [sink |-> StoredDates(df), ret |-> Len(df)]
    ELSE [sink |-> snk, ret |-> 0]

\* variant: a failed load job is reported as an insert of the whole frame
web_upload_to_bq_counts_failure(snk, df, dbg, ok) ==
    IF df = <<>> THEN [sink |-> snk, ret |-> 0]
    ELSE IF dbg THEN [sink |-> snk, ret |-> Len(df)]
    ELSE IF ok THEN [sink |-> snk \o StoredDates(df), ret |-> Len(df)]
    ELSE [sink |-> snk, ret |-> Len(df)]

\* upload_to_bq(df): the table after the call and the returned count
web_upload_to_bq(snk, df, dbg, ok) ==
    IF df = <<>> THEN [sink |-> snk, ret |-> 0]
    ELSE IF dbg THEN [sink |-> snk, ret |-> Len(df)]
    ELSE IF ok THEN [sink |-> snk \o StoredDates(df), ret |-> Len(df)]
    ELSE [sink |-> snk, ret |-> 0]

\* variant: the gap-fill does not consult the key sets
RECURSIVE web_placeholders_unfiltered(_, _, _, _)
web_placeholders_unfiltered(n, all_new, bq_keys, keys) ==
    IF n > NDays THEN [new |-> <<>>, keys |-> keys]
    ELSE LET ph == web_sitewide_row(Day(n), ZeroMetrics)
             missing == ~\E i \in DOMAIN all_new :
                            all_new[i].Date = Day(n) /\ all_new[i].Query = SITE_TOTAL
             rest == web_placeholders_unfiltered(n + 1, all_new, bq_keys,
                                      IF missing THEN keys \cup {ph.unique_key} ELSE keys)
         IN  [new |-> (IF missing THEN <<ph>> ELSE <<>>) \o rest.new, keys |-> rest.keys]

\* variant: the gap-fill consults the in-run index but not the keys loaded
\* from the table
RECURSIVE web_placeholders_ignores_bq_keys(_, _, _, _)
web_placeholders_ignores_bq_keys(n, all_new, bq_keys, keys) ==
    IF n > NDays THEN [new |-> <<>>, keys |-> keys]
    ELSE LET ph == web_sitewide_row(Day(n), ZeroMetrics)
             missing == ~\E i \in DOMAIN all_new :
                            all_new[i].Date = Day(n) /\ all_new[i].Query = SITE_TOTAL
             add == missing /\ ph.unique_key \notin keys
             rest == web_placeholders_ignores_bq_keys(n + 1, all_new, bq_keys,
                                      IF add THEN keys \cup {ph.unique_key} ELSE keys)
         IN  [new |-> (IF add THEN <<ph>> ELSE <<>>) \o rest.new, keys |-> rest.keys]

\* Step 2 of fetch_sitewide_batch: the placeholders created for the dates that
\* have no row in all_new_rows, filtered by both key sets
RECURSIVE web_placeholders(_, _, _, _)
web_placeholders(n, all_new, bq_keys, keys) ==
    IF n > NDays THEN [new |-> <<>>, keys |-> keys]
    ELSE LET ph == web_sitewide_row(Day(n), ZeroMetrics)
             missing == ~\E i \in DOMAIN all_new :
                            all_new[i].Date = Day(n) /\ all_new[i].Query = SITE_TOTAL
             add == missing /\ ph.unique_key \notin bq_keys /\ ph.unique_key \notin keys
             rest == web_placeholders(n + 1, all_new, bq_keys,
                                      IF add THEN keys \cup {ph.unique_key} ELSE keys)
         IN  [new |-> (IF add THEN <<ph>> ELSE <<>>) \o rest.new, keys |-> rest.keys]

\* the rows handed to the placeholder upload:
\*   placeholders_only = [row for row in all_new_rows if row.get("Clicks") is None]
web_placeholders_only(created, all_new) ==
    SelectSeq(all_new, LAMBDA r : IsNoneMetric(r.Clicks))

\* what follows the end of fetch loop p
web_end_loop(p, acc) ==
    IF p < 5 THEN [pc |-> "fetch", pass |-> p + 1]
    ELSE IF p = 5 THEN [pc |-> "fetch", pass |-> 6]
    ELSE IF p \in {6, 7} THEN [pc |-> IF acc # <<>> THEN "upload_pass" ELSE "next_pass", pass |-> p]
    ELSE [pc |-> "placeholders", pass |-> p]

\* variant: the loop ends on an empty page only
web_advance_until_empty(n, acc) ==
    IF n = 0
    THEN /\ pc' = web_end_loop(pass, acc).pc
         /\ pass' = web_end_loop(pass, acc).pass
         /\ start_row' = IF web_end_loop(pass, acc).pass = pass THEN start_row ELSE 0
    ELSE /\ pc' = "fetch"
         /\ pass' = pass
         /\ start_row' = start_row + n

\* break on an empty or short page, else advance the cursor by the page length
web_advance(n, acc) ==
    IF n < ROW_LIMIT
    THEN /\ pc' = web_end_loop(pass, acc).pc
         /\ pass' = web_end_loop(pass, acc).pass
         /\ start_row' = IF web_end_loop(pass, acc).pass = pass THEN start_row ELSE 0
    ELSE /\ pc' = "fetch"
         /\ pass' = pass
         /\ start_row' = start_row + n

web_load_keys ==
    /\ script = "web"
    /\ pc = "load_keys"
    /\ \E ok \in BOOLEAN :
          /\ existing_keys' = web_get_existing_keys(sink, ok)
          /\ hist' = [hist EXCEPT !.idxFail = ~ok]
    /\ pc' = "fetch"
    /\ UNCHANGED <<script, data, country_map, sink, run, debug, pass, start_row, existing_bq_keys,
                   batch_new, acc_rows, inserted, reqLog, srcFails, writeFails>>

\* variant: the retry starts the loop again from its first page
web_query_raises_restarts_loop ==
    /\ script = "web"
    /\ pc = "fetch"
    /\ srcFails < MaxSrcFail
    /\ srcFails' = srcFails + 1
    /\ reqLog' = LogReq(FALSE)
    /\ start_row' = 0
    /\ UNCHANGED <<script, data, country_map, sink, run, debug, pc, pass, existing_keys,
                   existing_bq_keys, batch_new, acc_rows, inserted, writeFails, hist>>

\* a page request of any of the four loops raises: sleep and retry
web_query_raises ==
    /\ script = "web"
    /\ pc = "fetch"
    /\ srcFails < MaxSrcFail
    /\ srcFails' = srcFails + 1
    /\ reqLog' = LogReq(FALSE)
    /\ UNCHANGED <<script, data, country_map, sink, run, debug, pc, pass, start_row, existing_keys,
                   existing_bq_keys, batch_new, acc_rows, inserted, writeFails, hist>>

\* fetch_gsc_data: one page of dimension batch 1..5
web_fetch_gsc_data_page ==
    /\ script = "web"
    /\ pc = "fetch"
    /\ pass \in 1 .. 5
    /\ LET rows == query(script, data, web_request(pass), start_row)
           f == FilterNew(web_main_rows[data, pass, start_row], existing_keys)
       IN  /\ reqLog' = LogReq(TRUE)
           /\ existing_keys' = f.keys
           /\ batch_new' = f.new
           /\ IF f.new # <<>>
              THEN pc' = "upload" /\ UNCHANGED <<pass, start_row>>
              ELSE web_advance(Len(rows), <<>>)
           /\ acc_rows' = IF f.new = <<>> /\ Len(rows) < ROW_LIMIT /\ pass = 5
                          THEN <<>> ELSE acc_rows
    /\ UNCHANGED <<script, data, country_map, sink, run, debug, existing_bq_keys, inserted, srcFails,
                   writeFails, hist>>

\* fetch_gsc_data: df_batch, the frame of the new rows of a page, with the
\* country column mapped when the batch requested the country dimension
web_df_batch(new, p, table) ==
    IF \E j \in DOMAIN web_dims(p) : web_dims(p)[j] = "country"
    THEN robust_map_country_column(new, table)
    ELSE new

\* fetch_gsc_data: inserted = upload_to_bq(df_batch) after a page with new rows
web_fetch_gsc_data_upload ==
    /\ script = "web"
    /\ pc = "upload"
    /\ pass \in 1 .. 5
    /\ \E ok \in BOOLEAN :
          /\ ok \/ (~debug /\ writeFails < MaxWriteFail)
          /\ LET u == web_upload_to_bq(sink, web_df_batch(batch_new, pass, country_map),
                                        debug, ok)
             IN  /\ sink' = u.sink
                 /\ inserted' = [inserted EXCEPT !.main = @ + u.ret]
          /\ writeFails' = IF ok THEN writeFails ELSE writeFails + 1
          /\ hist' = Offer(batch_new)
    /\ LET n == Len(query(script, data, web_request(pass), start_row))
       IN  /\ web_advance(n, <<>>)
           /\ acc_rows' = IF n < ROW_LIMIT /\ pass = 5 THEN <<>> ELSE acc_rows \o batch_new
    /\ batch_new' = <<>>
    /\ UNCHANGED <<script, data, country_map, run, debug, existing_keys, existing_bq_keys, reqLog, srcFails>>

\* variant: the pass checks the index but does not record the keys it accepts
web_collect_page_private_index ==
    /\ script = "web"
    /\ pc = "fetch"
    /\ pass \in {6, 7}
    /\ LET rows == query(script, data, web_request(pass), start_row)
           f == FilterNew(web_collect_rows[data, pass, start_row], existing_keys)
       IN  /\ reqLog' = LogReq(TRUE)
           /\ acc_rows' = acc_rows \o f.new
           /\ web_advance(Len(rows), acc_rows \o f.new)
    /\ UNCHANGED <<script, data, country_map, sink, run, debug, existing_keys, existing_bq_keys, batch_new,
                   inserted, srcFails, writeFails, hist>>

\* fetch_noindex_batch / Batch 7: one page; the new rows wait for the end of the loop
web_collect_page ==
    /\ script = "web"
    /\ pc = "fetch"
    /\ pass \in {6, 7}
    /\ LET rows == query(script, data, web_request(pass), start_row)
           f == FilterNew(web_collect_rows[data, pass, start_row], existing_keys)
       IN  /\ reqLog' = LogReq(TRUE)
           /\ existing_keys' = f.keys
           /\ acc_rows' = acc_rows \o f.new
           /\ web_advance(Len(rows), acc_rows \o f.new)
    /\ UNCHANGED <<script, data, country_map, sink, run, debug, existing_bq_keys, batch_new, inserted,
                   srcFails, writeFails, hist>>

\* fetch_noindex_batch / Batch 7: the single upload_to_bq after the loop
web_collect_upload ==
    /\ script = "web"
    /\ pc = "upload_pass"
    /\ pass \in {6, 7}
    /\ \E ok \in BOOLEAN :
          /\ ok \/ (~debug /\ writeFails < MaxWriteFail)
          /\ LET u == web_upload_to_bq(sink, acc_rows, debug, ok)
             IN  /\ sink' = u.sink
                 /\ inserted' = IF pass = 6 THEN [inserted EXCEPT !.noindex = u.ret]
                                ELSE [inserted EXCEPT !.b7 = u.ret]
          /\ writeFails' = IF ok THEN writeFails ELSE writeFails + 1
          /\ hist' = Offer(acc_rows)
    /\ pc' = "next_pass"
    /\ UNCHANGED <<script, data, country_map, run, debug, pass, start_row, existing_keys, existing_bq_keys,
                   batch_new, acc_rows, reqLog, srcFails>>

\* main() goes on to Batch 7, then to fetch_sitewide_batch
web_next_pass ==
    /\ script = "web"
    /\ pc = "next_pass"
    /\ pass \in {6, 7}
    /\ pass' = pass + 1
    /\ pc' = IF pass = 6 THEN "fetch" ELSE "load_sitewide_keys"
    /\ start_row' = 0
    /\ acc_rows' = <<>>
    /\ UNCHANGED <<script, data, country_map, sink, run, debug, existing_keys, existing_bq_keys, batch_new,
                   inserted, reqLog, srcFails, writeFails, hist>>

\* fetch_sitewide_batch, Step 0: the key query has no handler, so a failure
\* leaves main() as an uncaught exception
web_load_sitewide_keys ==
    /\ script = "web"
    /\ pc = "load_sitewide_keys"
    /\ \E ok \in BOOLEAN :
          IF ok
          THEN /\ existing_bq_keys' = get_existing_sitewide_keys(sink)
               /\ pc' = "fetch"
               /\ hist' = hist
          ELSE /\ existing_bq_keys' = existing_bq_keys
               /\ pc' = "aborted"
               /\ hist' = hist
    /\ UNCHANGED <<script, data, country_map, sink, run, debug, pass, start_row, existing_keys, batch_new,
                   acc_rows, inserted, reqLog, srcFails, writeFails>>

\* fetch_sitewide_batch, Step 1: one page of ['date'] rows
web_sitewide_page ==
    /\ script = "web"
    /\ pc = "fetch"
    /\ pass = 8
    /\ LET rows == query(script, data, web_request(pass), start_row)
           cand == SelectSeq(web_sitewide_rows(rows), LAMBDA r : r.unique_key \notin existing_bq_keys)
           f == FilterNew(cand, existing_keys)
       IN  /\ reqLog' = LogReq(TRUE)
           /\ existing_keys' = f.keys
           /\ batch_new' = f.new
           /\ IF f.new # <<>>
              THEN pc' = "upload" /\ UNCHANGED <<pass, start_row>>
              ELSE web_advance(Len(rows), <<>>)
    /\ UNCHANGED <<script, data, country_map, sink, run, debug, existing_bq_keys, acc_rows, inserted,
                   srcFails, writeFails, hist>>

\* fetch_sitewide_batch: upload of the new rows of one page
web_sitewide_upload ==
    /\ script = "web"
    /\ pc = "upload"
    /\ pass = 8
    /\ \E ok \in BOOLEAN :
          /\ ok \/ (~debug /\ writeFails < MaxWriteFail)
          /\ LET u == web_upload_to_bq(sink, batch_new, debug, ok)
             IN  /\ sink' = u.sink
                 /\ inserted' = [inserted EXCEPT !.site = @ + u.ret]
          /\ writeFails' = IF ok THEN writeFails ELSE writeFails + 1
          /\ hist' = Offer(batch_new)
    /\ acc_rows' = acc_rows \o batch_new
    /\ batch_new' = <<>>
    /\ web_advance(Len(query(script, data, web_request(pass), start_row)), <<>>)
    /\ UNCHANGED <<script, data, country_map, run, debug, existing_keys, existing_bq_keys, reqLog, srcFails>>

\* fetch_sitewide_batch, Step 2: placeholders for the missing dates, the
\* placeholder upload, and the return to main()
web_sitewide_placeholders ==
    /\ script = "web"
    /\ pc = "placeholders"
    /\ \E ph \in {web_placeholders(1, acc_rows, existing_bq_keys, existing_keys)} :
       \E only \in {web_placeholders_only(ph.new, acc_rows)} :
           /\ existing_keys' = ph.keys
           /\ \E ok \in BOOLEAN :
                 /\ ok \/ (only # <<>> /\ ~debug /\ writeFails < MaxWriteFail)
                 /\ LET u == web_upload_to_bq(sink, only, debug, ok)
                    IN  /\ sink' = u.sink
                        /\ inserted' = [inserted EXCEPT !.site = @ + u.ret]
                 /\ writeFails' = IF ok THEN writeFails ELSE writeFails + 1
                 /\ hist' = [Offer(only) EXCEPT !.placeholders = ph.new]
           /\ acc_rows' = acc_rows \o only
    /\ pc' = "summary"
    /\ UNCHANGED <<script, data, country_map, run, debug, pass, start_row, existing_bq_keys, batch_new,
                   reqLog, srcFails>>

\* main(): the final summary
web_summary ==
    /\ script = "web"
    /\ pc = "summary"
    /\ pc' = "done"
    /\ UNCHANGED <<script, data, country_map, sink, run, debug, pass, start_row, existing_keys,
                   existing_bq_keys, batch_new, acc_rows, inserted, reqLog, srcFails,
                   writeFails, hist>>

web_next ==
    \/ web_load_keys \/ web_query_raises
    \/ web_fetch_gsc_data_page \/ web_fetch_gsc_data_upload
    \/ web_collect_page \/ web_collect_upload \/ web_next_pass
    \/ web_load_sitewide_keys \/ web_sitewide_page \/ web_sitewide_upload
    \/ web_sitewide_placeholders \/ web_summary

----------------------------------------------------------------------------
(* src/scripts/gsc_to_bq_searchtype_others_fullfetch.py *)

SEARCH_TYPES == <<"image", "video", "news">>

\* str(date_raw)[:10]
others_date_part(d) == py_prefix(d, 10)

generate_unique_key(row) ==
    LET q == py_lower(py_strip(OrEmpty(row.Query)))
        p == py_rstrip(py_lower(py_strip(OrEmpty(row.Page))), Slash)
        c == py_lower(py_strip(OrEmpty(row.Country)))
        d == py_lower(py_strip(OrEmpty(row.Device)))
    IN  py_join(<<others_date_part(row.Date), q, p, c, d>>)

\* the fetch loops of main(), in order: 4 DIMENSION_BATCHES x 3 search types
\* of fetch_gsc_data, then 3 of fetch_noindex_batch, 3 of Batch 6, 3 of
\* fetch_sitewide_batch
others_kind(p) ==
    IF p <= 12 THEN "main" ELSE IF p <= 15 THEN "noindex"
    ELSE IF p <= 18 THEN "b6" ELSE "sitewide"

others_stype(p) == SEARCH_TYPES[((p - 1) % 3) + 1]

others_dims(p) ==
    CASE p \in 1 .. 3 -> <<"date", "query", "page">>
      [] p \in 4 .. 6 -> <<"date", "query", "country">>
      [] p \in 7 .. 9 -> <<"date", "query", "device">>
      [] p \in 10 .. 12 -> <<"date", "query">>
      [] p \in 13 .. 18 -> <<"date", "page">>
      [] OTHER -> <<"date">>

others_request(p) == Request(others_dims(p), others_stype(p), 1, NDays)

HasDim(dims, dim) == \E j \in DOMAIN dims : dims[j] = dim

\* fetch_gsc_data: the row built from one source row of loop p
others_main_row(r, p) ==
    LET dims == others_dims(p)
        third == IF Len(r.keys) > 2 THEN r.keys[3] ELSE None
        row == Row(IF Len(r.keys) > 0 THEN r.keys[1] ELSE None,
                   IF HasDim(dims, "query") /\ Len(r.keys) > 1 THEN r.keys[2] ELSE None,
                   IF HasDim(dims, "page") THEN third ELSE None,
                   IF HasDim(dims, "country") THEN third ELSE None,
                   IF HasDim(dims, "device") THEN third ELSE None,
                   NO_APPEARANCE, r, others_stype(p), None)
    IN  [row EXCEPT !.unique_key = generate_unique_key(row)]

others_noindex_rows(rows, p) ==
    LET keep == SelectSeq(rows, LAMBDA r : Len(r.keys) = 2 /\ py_strip(r.keys[2]) = <<>>)
    IN  [i \in DOMAIN keep |->
            LET row == Row(keep[i].keys[1], NO_INDEX, NO_INDEX, NO_COUNTRY, NO_DEVICE,
                           NO_APPEARANCE, keep[i], others_stype(p), None)
            IN  [row EXCEPT !.unique_key = generate_unique_key(row)]]

others_b6_rows(rows, p) ==
    LET keep == SelectSeq(rows, LAMBDA r : Len(r.keys) = 2 /\ r.keys[2] # <<>>)
    IN  [i \in DOMAIN keep |->
            LET row == Row(keep[i].keys[1], PAGE_TOTAL, keep[i].keys[2], NO_COUNTRY, NO_DEVICE,
                           NO_APPEARANCE, keep[i], others_stype(p), None)
            IN  [row EXCEPT !.unique_key = generate_unique_key(row)]]

others_sitewide_row(d, m, st) ==
    LET row == Row(d, SITE_TOTAL, SITE_TOTAL, NO_COUNTRY, NO_DEVICE, NO_APPEARANCE,
                   m, st, None)
    IN  [row EXCEPT !.unique_key = generate_unique_key(row)]

others_sitewide_rows(rows, p) ==
    [i \in DOMAIN rows |-> others_sitewide_row(rows[i].keys[1], rows[i], others_stype(p))]

\* get_existing_keys(start_date, end_date): keys of the stored rows of the range
others_get_existing_keys(snk, ok) ==
    IF ok
    THEN {snk[i].unique_key : i \in {j \in DOMAIN snk : \E n \in Days : snk[j].Date = Day(n)}}
    ELSE {}

others_upload_to_bq(snk, df, dbg, ok) ==
    IF df = <<>> THEN [sink |-> snk, ret |-> 0]
    ELSE IF dbg THEN [sink |-> snk, ret |-> Len(df)]
    ELSE IF ok THEN [sink |-> snk \o StoredDates(df), ret |-> Len(df)]
    ELSE [sink |-> snk, ret |-> 0]

\* Step 2 of fetch_sitewide_batch: for each date without a row in all_new_rows,
\* one placeholder per search type whose key is not in existing_keys
RECURSIVE others_placeholders_of_day(_, _, _)
others_placeholders_of_day(n, j, keys) ==
    IF j > Len(SEARCH_TYPES) THEN [new |-> <<>>, keys |-> keys]
    ELSE LET ph == others_sitewide_row(Day(n), ZeroMetrics, SEARCH_TYPES[j])
             add == ph.unique_key \notin keys
             rest == others_placeholders_of_day(n, j + 1,
                                                IF add THEN keys \cup {ph.unique_key} ELSE keys)
         IN  [new |-> (IF add THEN <<ph>> ELSE <<>>) \o rest.new, keys |-> rest.keys]

RECURSIVE others_placeholders(_, _, _)
others_placeholders(n, all_new, keys) ==
    IF n > NDays THEN [new |-> <<>>, keys |-> keys]
    ELSE LET exists_for_date ==
                 \E i \in DOMAIN all_new : others_date_part(all_new[i].Date) = Day(n)
             day == IF exists_for_date THEN [new |-> <<>>, keys |-> keys]
                    ELSE others_placeholders_of_day(n, 1, keys)
             rest == others_placeholders(n + 1, all_new, day.keys)
         IN  [new |-> day.new \o rest.new, keys |-> rest.keys]

\*   placeholders_only = [row for row in all_new_rows if row.get("Clicks") is None]
others_placeholders_only(all_new) ==
    SelectSeq(all_new, LAMBDA r : IsNoneMetric(r.Clicks))

\* what follows the end of fetch loop p
others_end_loop(p, acc) ==
    IF p < 12 THEN [pc |-> "fetch", pass |-> p + 1]
    ELSE IF p = 12 THEN [pc |-> "fetch", pass |-> 13]
    ELSE IF p \in {13, 14, 16, 17, 19, 20} THEN [pc |-> "fetch", pass |-> p + 1]
    ELSE IF p \in {15, 18} THEN [pc |-> IF acc # <<>> THEN "upload_pass" ELSE "next_pass", pass |-> p]
    ELSE [pc |-> "placeholders", pass |-> p]

\* fetch_gsc_data counts the answered pages of a loop in page_index; every
\* page before the current one was full, so the cursor tells their number
page_index(sr) == (sr \div ROW_LIMIT) + 1

\* the loops of fetch_gsc_data end after a full page too once
\* page_index > 10000; the other loops have no such guard
too_many_pages(p, sr) == p \in 1 .. 12 /\ page_index(sr) > MAX_PAGES

\* the page of n rows at the cursor is the last one of loop p
others_last_page(n, p, sr) == n < ROW_LIMIT \/ too_many_pages(p, sr)

others_advance(n, acc) ==
    IF others_last_page(n, pass, start_row)
    THEN /\ pc' = others_end_loop(pass, acc).pc
         /\ pass' = others_end_loop(pass, acc).pass
         /\ start_row' = IF others_end_loop(pass, acc).pass = pass THEN start_row ELSE 0
    ELSE /\ pc' = "fetch"
         /\ pass' = pass
         /\ start_row' = start_row + n

others_load_keys ==
    /\ script = "others"
    /\ pc = "load_keys"
    /\ \E ok \in BOOLEAN :
          /\ existing_keys' = others_get_existing_keys(sink, ok)
          /\ hist' = [hist EXCEPT !.idxFail = ~ok]
    /\ pc' = "fetch"
    /\ UNCHANGED <<script, data, country_map, sink, run, debug, pass, start_row, existing_bq_keys,
                   batch_new, acc_rows, inserted, reqLog, srcFails, writeFails>>

\* fetch_gsc_data, fetch_noindex_batch, fetch_sitewide_batch: the request
\* raises, sleep RETRY_DELAY and retry
others_query_raises ==
    /\ script = "others"
    /\ pc = "fetch"
    /\ others_kind(pass) # "b6"
    /\ srcFails < MaxSrcFail
    /\ srcFails' = srcFails + 1
    /\ reqLog' = LogReq(FALSE)
    /\ UNCHANGED <<script, data, country_map, sink, run, debug, pc, pass, start_row, existing_keys,
                   existing_bq_keys, batch_new, acc_rows, inserted, writeFails, hist>>

\* Batch 6 of main(): the request is not guarded inside the loop; the outer
\* handler ends the pass with inserted_b4 = 0 and an empty df_batch4
others_b6_query_raises ==
    /\ script = "others"
    /\ pc = "fetch"
    /\ others_kind(pass) = "b6"
    /\ srcFails < MaxSrcFail
    /\ srcFails' = srcFails + 1
    /\ reqLog' = LogReq(FALSE)
    /\ hist' = [hist EXCEPT !.aborted = @ \cup {"b6"}]
    /\ inserted' = [inserted EXCEPT !.b7 = 0]
    /\ acc_rows' = <<>>
    /\ pc' = "fetch"
    /\ pass' = 19
    /\ start_row' = 0
    /\ UNCHANGED <<script, data, country_map, sink, run, debug, existing_keys, existing_bq_keys,
                   batch_new, writeFails>>

others_fetch_gsc_data_page ==
    /\ script = "others"
    /\ pc = "fetch"
    /\ others_kind(pass) = "main"
    /\ LET rows == query(script, data, others_request(pass), start_row)
           f == FilterNew([i \in DOMAIN rows |-> others_main_row(rows[i], pass)], existing_keys)
       IN  /\ reqLog' = LogReq(TRUE)
           /\ existing_keys' = f.keys
           /\ batch_new' = f.new
           /\ IF f.new # <<>>
              THEN pc' = "upload" /\ UNCHANGED <<pass, start_row>>
              ELSE others_advance(Len(rows), <<>>)
           /\ acc_rows' = IF f.new = <<>> /\ others_last_page(Len(rows), pass, start_row) /\ pass = 12
                          THEN <<>> ELSE acc_rows
    /\ UNCHANGED <<script, data, country_map, sink, run, debug, existing_bq_keys, inserted, srcFails,
                   writeFails, hist>>

\* fetch_gsc_data: df_batch, the frame of the new rows of a page, with the
\* country column mapped when the batch requested the country dimension
others_df_batch(new, p, table) ==
    IF HasDim(others_dims(p), "country") THEN robust_map_country_column(new, table) ELSE new

others_fetch_gsc_data_upload ==
    /\ script = "others"
    /\ pc = "upload"
    /\ others_kind(pass) = "main"
    /\ \E ok \in BOOLEAN :
          /\ ok \/ (~debug /\ writeFails < MaxWriteFail)
          /\ LET u == others_upload_to_bq(sink, others_df_batch(batch_new, pass, country_map),
                                           debug, ok)
             IN  /\ sink' = u.sink
                 /\ inserted' = [inserted EXCEPT !.main = @ + u.ret]
          /\ writeFails' = IF ok THEN writeFails ELSE writeFails + 1
    /\ LET n == Len(query(script, data, others_request(pass), start_row))
       IN  /\ others_advance(n, <<>>)
           /\ acc_rows' = IF others_last_page(n, pass, start_row) /\ pass = 12
                          THEN <<>> ELSE acc_rows \o batch_new
    /\ batch_new' = <<>>
    /\ hist' = Offer(batch_new)
    /\ UNCHANGED <<script, data, country_map, run, debug, existing_keys, existing_bq_keys, reqLog,
                   srcFails>>

\* fetch_noindex_batch / Batch 6: one page; the new rows wait for the end of the loops
others_collect_page ==
    /\ script = "others"
    /\ pc = "fetch"
    /\ others_kind(pass) \in {"noindex", "b6"}
    /\ LET rows == query(script, data, others_request(pass), start_row)
           cand == IF others_kind(pass) = "noindex"
                   THEN others_noindex_rows(rows, pass) ELSE others_b6_rows(rows, pass)
           f == FilterNew(cand, existing_keys)
       IN  /\ reqLog' = LogReq(TRUE)
           /\ existing_keys' = f.keys
           /\ acc_rows' = acc_rows \o f.new
           /\ others_advance(Len(rows), acc_rows \o f.new)
    /\ UNCHANGED <<script, data, country_map, sink, run, debug, existing_bq_keys, batch_new, inserted,
                   srcFails, writeFails, hist>>

others_collect_upload ==
    /\ script = "others"
    /\ pc = "upload_pass"
    /\ \E ok \in BOOLEAN :
          /\ ok \/ (~debug /\ writeFails < MaxWriteFail)
          /\ LET u == others_upload_to_bq(sink, acc_rows, debug, ok)
             IN  /\ sink' = u.sink
                 /\ inserted' = IF others_kind(pass) = "noindex"
                                THEN [inserted EXCEPT !.noindex = @ + u.ret]
                                ELSE [inserted EXCEPT !.b7 = u.ret]
          /\ writeFails' = IF ok THEN writeFails ELSE writeFails + 1
    /\ pc' = "next_pass"
    /\ hist' = Offer(acc_rows)
    /\ UNCHANGED <<script, data, country_map, run, debug, pass, start_row, existing_keys, existing_bq_keys,
                   batch_new, acc_rows, reqLog, srcFails>>

others_next_pass ==
    /\ script = "others"
    /\ pc = "next_pass"
    /\ pass' = pass + 1
    /\ pc' = "fetch"
    /\ start_row' = 0
    /\ acc_rows' = <<>>
    /\ UNCHANGED <<script, data, country_map, sink, run, debug, existing_keys, existing_bq_keys, batch_new,
                   inserted, reqLog, srcFails, writeFails, hist>>

others_sitewide_page ==
    /\ script = "others"
    /\ pc = "fetch"
    /\ others_kind(pass) = "sitewide"
    /\ LET rows == query(script, data, others_request(pass), start_row)
           f == FilterNew(others_sitewide_rows(rows, pass), existing_keys)
       IN  /\ reqLog' = LogReq(TRUE)
           /\ existing_keys' = f.keys
           /\ batch_new' = f.new
           /\ IF f.new # <<>>
              THEN pc' = "upload" /\ UNCHANGED <<pass, start_row>>
              ELSE others_advance(Len(rows), <<>>)
    /\ UNCHANGED <<script, data, country_map, sink, run, debug, existing_bq_keys, acc_rows, inserted,
                   srcFails, writeFails, hist>>

others_sitewide_upload ==
    /\ script = "others"
    /\ pc = "upload"
    /\ others_kind(pass) = "sitewide"
    /\ \E ok \in BOOLEAN :
          /\ ok \/ (~debug /\ writeFails < MaxWriteFail)
          /\ LET u == others_upload_to_bq(sink, batch_new, debug, ok)
             IN  /\ sink' = u.sink
                 /\ inserted' = [inserted EXCEPT !.site = @ + u.ret]
          /\ writeFails' = IF ok THEN writeFails ELSE writeFails + 1
    /\ acc_rows' = acc_rows \o batch_new
    /\ batch_new' = <<>>
    /\ others_advance(Len(query(script, data, others_request(pass), start_row)), <<>>)
    /\ hist' = Offer(batch_new)
    /\ UNCHANGED <<script, data, country_map, run, debug, existing_keys, existing_bq_keys, reqLog,
                   srcFails>>

others_sitewide_placeholders ==
    /\ script = "others"
    /\ pc = "placeholders"
    /\ \E ph \in {others_placeholders(1, acc_rows, existing_keys)} :
       \E only \in {others_placeholders_only(acc_rows \o ph.new)} :
           /\ existing_keys' = ph.keys
           /\ acc_rows' = acc_rows \o ph.new
           /\ \E ok \in BOOLEAN :
                 /\ ok \/ (only # <<>> /\ ~debug /\ writeFails < MaxWriteFail)
                 /\ LET u == others_upload_to_bq(sink, only, debug, ok)
                    IN  /\ sink' = u.sink
                        /\ inserted' = [inserted EXCEPT !.site = @ + u.ret]
                 /\ writeFails' = IF ok THEN writeFails ELSE writeFails + 1
           /\ hist' = [Offer(only) EXCEPT !.placeholders = ph.new]
    /\ pc' = "summary"
    /\ UNCHANGED <<script, data, country_map, run, debug, pass, start_row, existing_bq_keys, batch_new,
                   reqLog, srcFails>>

others_summary ==
    /\ script = "others"
    /\ pc = "summary"
    /\ pc' = "done"
    /\ UNCHANGED <<script, data, country_map, sink, run, debug, pass, start_row, existing_keys,
                   existing_bq_keys, batch_new, acc_rows, inserted, reqLog, srcFails,
                   writeFails, hist>>

others_next ==
    \/ others_load_keys \/ others_query_raises \/ others_b6_query_raises
    \/ others_fetch_gsc_data_page \/ others_fetch_gsc_data_upload
    \/ others_collect_page \/ others_collect_upload \/ others_next_pass
    \/ others_sitewide_page \/ others_sitewide_upload
    \/ others_sitewide_placeholders \/ others_summary

----------------------------------------------------------------------------
(* src/scripts/gsc_to_bq_searchappearance_fullfetch.py (Rev 2, per-day fetch) *)

sa_request(n) == Request(<<"searchAppearance">>, "web", n, n)

\* key_material = f"{sa.strip().lower()}|{cur_date_str}"
sa_row_key(sa, n) == py_lower(py_strip(sa)) \o <<Bar>> \o Day(n)

\* placeholder_key = sha256(f"{placeholder_sa}|{cur_date_str}")
sa_placeholder_key(n) == NO_APPEARANCE \o <<Bar>> \o Day(n)

sa_rows(rows, n) ==
    [i \in DOMAIN rows |->
        Row(Day(n), None, None, None, None, rows[i].keys[1], rows[i], None,
            sa_row_key(rows[i].keys[1], n))]

sa_placeholder(n) ==
    Row(Day(n), None, None, None, None, NO_APPEARANCE, ZeroMetrics, None, sa_placeholder_key(n))

\* variant: a day without rows gets no placeholder
sa_fetch_day_no_placeholder(n, rows, ok, keys) ==
    LET got == IF ok THEN rows ELSE <<>>
    IN  IF got = <<>>
        THEN [new |-> <<>>, keys |-> keys]
        ELSE FilterNew(sa_rows(got, n), keys)

\* variant: a day whose request raised is skipped, only an answered empty
\* day gets the placeholder
sa_fetch_day_error_skips_day(n, rows, ok, keys) ==
    IF ~ok THEN [new |-> <<>>, keys |-> keys]
    ELSE IF rows = <<>>
         THEN IF sa_placeholder_key(n) \notin keys
              THEN [new |-> <<sa_placeholder(n)>>, keys |-> keys \cup {sa_placeholder_key(n)}]
              ELSE [new |-> <<>>, keys |-> keys]
         ELSE FilterNew(sa_rows(rows, n), keys)

\* one iteration of the per-day loop of fetch_searchappearance_data: the rows
\* appended to all_rows and the Dedup Index after it; ok = the request returned
sa_fetch_day(n, rows, ok, keys) ==
    LET got == IF ok THEN rows ELSE <<>>
    IN  IF got = <<>>
        THEN IF sa_placeholder_key(n) \notin keys
             THEN [new |-> <<sa_placeholder(n)>>, keys |-> keys \cup {sa_placeholder_key(n)}]
             ELSE [new |-> <<>>, keys |-> keys]
        ELSE FilterNew(sa_rows(got, n), keys)

sa_get_existing_keys(snk, ok) == IF ok THEN SinkKeys(snk) ELSE {}

\* the pre-write filter of upload_to_bq: the table's keys are queried again
\* (an empty set when the query raises) and the rows already present dropped
sa_df_filtered(snk, df, qok) ==
    LET present == IF qok THEN SinkKeys(snk) ELSE {}
    IN  SelectSeq(df, LAMBDA r : r.unique_key \notin present)

\* a cell of a metric column: a number n >= 0, None / NaN (-1), a text that
\* is no number such as 'n/a' (-2), or the text of the number n (-(10 + n))
MetricCell(kind, n) ==
    CASE kind = "number" -> n
      [] kind = "none" -> 0 - 1
      [] kind = "text" -> 0 - 2
      [] OTHER -> 0 - (10 + n)

\* variant: pd.to_numeric(errors='coerce') without fillna(0): NaN stays
to_numeric_keeps_nan(v) ==
    IF v >= 0 THEN v ELSE IF v <= 0 - 10 THEN (0 - v) - 10 ELSE 0 - 1

\* pd.to_numeric(df[col], errors='coerce').fillna(0) on one cell
to_numeric_fillna(v) ==
    IF v >= 0 THEN v
    ELSE IF v <= 0 - 10 THEN (0 - v) - 10
    ELSE 0

\* the metric columns upload_to_bq coerces: those of the raw table when the
\* frame has a Clicks column, the _alloc ones when it has Clicks_alloc
sa_numeric_cols(row) ==
    IF "Clicks" \in DOMAIN row THEN {"Clicks", "Impressions", "CTR", "Position"}
    ELSE IF "Clicks_alloc" \in DOMAIN row
    THEN {"Clicks_alloc", "Impressions_alloc", "CTR_alloc", "Position_alloc"}
    ELSE {}

sa_coerced(df) ==
    [i \in DOMAIN df |->
        [c \in DOMAIN df[i] |->
            IF c \in sa_numeric_cols(df[i]) THEN to_numeric_fillna(df[i][c]) ELSE df[i][c]]]

\* the frame as the table stores it: a Date column is a DATE
sa_stored(df) ==
    [i \in DOMAIN df |->
        IF "Date" \in DOMAIN df[i] THEN [df[i] EXCEPT !.Date = to_date(df[i].Date)]
        ELSE df[i]]

\* upload_to_bq(df, table_name): the table after the call
sa_upload_to_bq(snk, df, dbg, qok, ok) ==
    IF df = <<>> THEN snk
    ELSE LET df_filtered == sa_df_filtered(snk, sa_coerced(df), qok)
         IN  IF df_filtered = <<>> THEN snk
             ELSE IF dbg THEN snk
             ELSE IF ok THEN snk \o sa_stored(df_filtered)
             ELSE snk

sa_load_keys ==
    /\ script = "sa"
    /\ pc = "load_keys"
    /\ \E ok \in BOOLEAN :
          /\ existing_keys' = sa_get_existing_keys(sink, ok)
          /\ hist' = [hist EXCEPT !.idxFail = ~ok]
    /\ pc' = "fetch"
    /\ UNCHANGED <<script, data, country_map, sink, run, debug, pass, start_row, existing_bq_keys,
                   batch_new, acc_rows, inserted, reqLog, srcFails, writeFails>>

\* the day's request returns: its new rows, or the day's placeholder
sa_day ==
    /\ script = "sa"
    /\ pc = "fetch"
    /\ LET rows == query(script, data, sa_request(pass), 0)
           f == sa_fetch_day(pass, rows, TRUE, existing_keys)
       IN  /\ existing_keys' = f.keys
           /\ acc_rows' = acc_rows \o f.new
           /\ hist' = IF rows = <<>> THEN [hist EXCEPT !.placeholders = @ \o f.new] ELSE hist
    /\ reqLog' = LogReq(TRUE)
    /\ IF pass < NDays THEN pass' = pass + 1 /\ pc' = "fetch"
                       ELSE pass' = pass /\ pc' = "upload"
    /\ UNCHANGED <<script, data, country_map, sink, run, debug, start_row, existing_bq_keys, batch_new,
                   inserted, srcFails, writeFails>>

\* the day's request raises: rows = [], fetch_error = True, no retry
sa_day_raises ==
    /\ script = "sa"
    /\ pc = "fetch"
    /\ srcFails < MaxSrcFail
    /\ srcFails' = srcFails + 1
    /\ LET f == sa_fetch_day(pass, <<>>, FALSE, existing_keys)
       IN  /\ existing_keys' = f.keys
           /\ acc_rows' = acc_rows \o f.new
           /\ hist' = [hist EXCEPT !.placeholders = @ \o f.new,
                                   !.fetch_error = @ \cup {pass}]
    /\ reqLog' = LogReq(FALSE)
    /\ IF pass < NDays THEN pass' = pass + 1 /\ pc' = "fetch"
                       ELSE pass' = pass /\ pc' = "upload"
    /\ UNCHANGED <<script, data, country_map, sink, run, debug, start_row, existing_bq_keys, batch_new,
                   inserted, writeFails>>

\* main(): upload_to_bq(df_new, BQ_TABLE_RAW), which coerces the metric
\* columns of df_new itself
sa_upload ==
    /\ script = "sa"
    /\ pc = "upload"
    /\ \E qok \in BOOLEAN, ok \in BOOLEAN :
          /\ ok \/ (~debug /\ writeFails < MaxWriteFail /\ sa_df_filtered(sink, acc_rows, qok) # <<>>)
          /\ sink' = sa_upload_to_bq(sink, acc_rows, debug, qok, ok)
          /\ writeFails' = IF ok THEN writeFails ELSE writeFails + 1
    /\ acc_rows' = sa_coerced(acc_rows)
    /\ pc' = "done"
    /\ hist' = Offer(acc_rows)
    /\ UNCHANGED <<script, data, country_map, run, debug, pass, start_row, existing_keys, existing_bq_keys,
                   batch_new, inserted, reqLog, srcFails>>

sa_next == sa_load_keys \/ sa_day \/ sa_day_raises \/ sa_upload

----------------------------------------------------------------------------
(* gsc_to_bq_searchappearance_fullfetch.py, Rev 1 (repository root): one
   request over the whole range, rows keyed by the appearance alone, written
   to the raw table; the allocation table it derives is not part of the model *)

sa1_request == Request(<<"searchAppearance">>, "web", 1, NDays)

\* sa = (row.get('SearchAppearance') or '').strip().lower(); "|".join((sa,))
sa1_stable_key(row) == py_join(<<py_lower(py_strip(OrEmpty(row.SearchAppearance)))>>)

\* the batch_new_rows candidates of the response, before the duplicate check
sa1_rows(rows) ==
    [i \in DOMAIN rows |->
        Row(None, None, None, None, None, rows[i].keys[1], rows[i], None,
            sa1_stable_key([SearchAppearance |-> rows[i].keys[1]]))]

sa1_get_existing_keys(snk, ok) == IF ok THEN SinkKeys(snk) ELSE {}

\* the pre-write filter of upload_to_bq: the table's keys are queried again
\* (an empty set when the query raises) and the rows already present dropped
sa1_df_filtered(snk, df, qok) ==
    LET present == IF qok THEN SinkKeys(snk) ELSE {}
    IN  SelectSeq(df, LAMBDA r : r.unique_key \notin present)

\* upload_to_bq(df, BQ_TABLE_RAW): the table after the call; the metric
\* columns are coerced as in the later revision (pd.to_numeric(...).fillna(0));
\* DEBUG_MODE is assigned from --debug and read nowhere, so the call takes no
\* debug input
sa1_upload_to_bq(snk, df, qok, ok) ==
    IF df = <<>> THEN snk
    ELSE LET df_filtered == sa1_df_filtered(snk, sa_coerced(df), qok)
         IN  IF df_filtered = <<>> THEN snk
             ELSE IF ok THEN snk \o df_filtered
             ELSE snk

\* fetch_searchappearance_data: existing_keys = get_existing_keys()
sa1_load_keys ==
    /\ script = "sa1"
    /\ pc = "load_keys"
    /\ \E ok \in BOOLEAN :
          /\ existing_keys' = sa1_get_existing_keys(sink, ok)
          /\ hist' = [hist EXCEPT !.idxFail = ~ok]
    /\ pc' = "fetch"
    /\ UNCHANGED <<script, data, country_map, sink, run, debug, pass, start_row, existing_bq_keys,
                   batch_new, acc_rows, inserted, reqLog, srcFails, writeFails>>

\* fetch_searchappearance_data: the single request returns (at most rowLimit
\* rows); df_batch holds the rows whose key is new
sa1_fetch ==
    /\ script = "sa1"
    /\ pc = "fetch"
    /\ LET rows == query(script, data, sa1_request, 0)
           f == FilterNew(sa1_rows(rows), existing_keys)
       IN  /\ existing_keys' = f.keys
           /\ acc_rows' = f.new
    /\ reqLog' = LogReq(TRUE)
    /\ pc' = "upload"
    /\ UNCHANGED <<script, data, country_map, sink, run, debug, pass, start_row, existing_bq_keys,
                   batch_new, inserted, srcFails, writeFails, hist>>

\* fetch_searchappearance_data: the request raises: return pd.DataFrame()
sa1_fetch_raises ==
    /\ script = "sa1"
    /\ pc = "fetch"
    /\ srcFails < MaxSrcFail
    /\ srcFails' = srcFails + 1
    /\ acc_rows' = <<>>
    /\ reqLog' = LogReq(FALSE)
    /\ hist' = [hist EXCEPT !.fetch_error = @ \cup {pass}]
    /\ pc' = "upload"
    /\ UNCHANGED <<script, data, country_map, sink, run, debug, pass, start_row, existing_keys,
                   existing_bq_keys, batch_new, inserted, writeFails>>

\* main() after upload_to_bq(df_new, BQ_TABLE_RAW): with an empty df_new the
\* raw table is read back, outside any try (rok: the read answers); the frame
\* goes to direct_allocation, whose df['unique_key'] = df.apply(..., axis=1)
\* is given a frame, not a column, when there is no row: whether that
\* assignment raises depends on the pandas of the build (eok). TRUE when
\* main() reaches its last line, FALSE when it ends with the exception.
sa1_main_ends(df_new, snk, rok, eok) ==
    IF df_new # <<>> THEN TRUE ELSE rok /\ (snk # <<>> \/ eok)

\* main(): upload_to_bq(df_new, BQ_TABLE_RAW), which coerces the metric
\* columns of df_new itself, then the allocation of df_new or of the rows
\* read back from the raw table
sa1_upload ==
    /\ script = "sa1"
    /\ pc = "upload"
    /\ \E qok \in BOOLEAN, ok \in BOOLEAN, rok \in BOOLEAN, eok \in BOOLEAN :
          /\ ok \/ (writeFails < MaxWriteFail /\ sa1_df_filtered(sink, acc_rows, qok) # <<>>)
          /\ sink' = sa1_upload_to_bq(sink, acc_rows, qok, ok)
          /\ writeFails' = IF ok THEN writeFails ELSE writeFails + 1
          /\ pc' = IF sa1_main_ends(acc_rows, sink', rok, eok) THEN "done" ELSE "aborted"
    /\ acc_rows' = sa_coerced(acc_rows)
    /\ hist' = Offer(acc_rows)
    /\ UNCHANGED <<script, data, country_map, run, debug, pass, start_row, existing_keys, existing_bq_keys,
                   batch_new, inserted, reqLog, srcFails>>

sa1_next == sa1_load_keys \/ sa1_fetch \/ sa1_fetch_raises \/ sa1_upload

----------------------------------------------------------------------------
(* upload_gsc_enhancements.py: the loader of the enhancement exports *)

Dash == "-"

\* an export in the folder: the "-"-separated tokens of its name before the
\* date, the date of the name (None when the name has no date), and the rows
\* of its "Table" sheet, each with its URL cell
EnhFile(parts, d, table) == [parts |-> parts, date |-> d, table |-> table]

\* the exports the folder may hold, in the order of sorted(os.listdir(...)):
\* notes.xlsx sorts before the x.com-... names, Breadcrumbs before FAQ, and
\* FAQ-2025... before FAQ-Valid-...; the folder holds the first n of them (data)
EnhFiles ==
    [i \in 1 .. NFacts |->
        CASE i = 1 -> EnhFile(<<<<"notes">>>>, None, <<[URL |-> PageB]>>)
          [] i = 2 -> EnhFile(<<<<"x", ".com">>, <<"Breadcrumbs">>, <<"Invalid">>>>, Day(1),
                              <<[URL |-> PageA], [URL |-> PageB]>>)
          [] i = 3 -> EnhFile(<<<<"x", ".com">>, <<"Breadcrumbs">>, <<"Valid">>>>, Day(1),
                              <<[URL |-> PageA]>>)
          [] i = 4 -> EnhFile(<<<<"x", ".com">>, <<"FAQ">>>>, Day(NDays),
                              <<[URL |-> None], [URL |-> PageA]>>)
          [] OTHER -> EnhFile(<<<<"x", ".com">>, <<"FAQ">>, <<"valid_items">>>>, Day(NDays),
                              <<>>)]

\* "-".join(enh_tokens)
RECURSIVE enh_join(_)
enh_join(tokens) ==
    IF tokens = <<>> THEN <<>>
    ELSE IF Len(tokens) = 1 THEN tokens[1]
    ELSE tokens[1] \o <<Dash>> \o enh_join(Tail(tokens))

\* the tokens that make the last part of a name a status hint
StatusTokens == {<<"valid">>, <<"invalid">>, <<"valid_items">>, <<"invalid_items">>}

\* "valid" in token: the texts "invalid", "valid_items" and "invalid_items"
\* contain it too
HasValid(token) ==
    \E i \in DOMAIN token : token[i] \in {"valid", "invalid", "valid_items", "invalid_items"}

\* re.sub(r'\.[a-z]{2,}$', '', site): a trailing lower-case domain ending
LowerTld(c) == c \in {".com", ".org", ".ir"}

\* the site of a name: ".com" in any case is cut off, else a lower-case ending
enh_site(site_raw) ==
    IF site_raw = <<>> THEN site_raw
    ELSE IF LowerPiece(site_raw[Len(site_raw)]) = ".com" \/ LowerTld(site_raw[Len(site_raw)])
    THEN SubSeq(site_raw, 1, Len(site_raw) - 1)
    ELSE site_raw

\* parse_filename_metadata: site, enhancement_name, date and status_hint of a
\* file name; a name that does not end in a date gives None everywhere
parse_filename_metadata(f) ==
    IF f.date = None
    THEN [site |-> None, enhancement_name |-> None, date |-> None, status_hint |-> None]
    ELSE LET parts == f.parts
             last_token == IF Len(parts) >= 2 THEN py_lower(py_strip(parts[Len(parts)]))
                           ELSE <<>>
             hinted == last_token \in StatusTokens
             \* "Valid" if "valid" in last_token else "Invalid"
             status_hint == IF ~hinted THEN None
                            ELSE IF HasValid(last_token) THEN <<"Valid">>
                            ELSE <<"Invalid">>
             enh_tokens == IF hinted THEN SubSeq(parts, 2, Len(parts) - 1)
                           ELSE SubSeq(parts, 2, Len(parts))
         IN  [site |-> enh_site(parts[1]), enhancement_name |-> py_strip(enh_join(enh_tokens)),
              date |-> f.date, status_hint |-> status_hint]

\* build_unique_key_series.row_key:
\*   f"{site}|{enhancement_name}|{page}|{status}|{lastc_str}|{date_str}"
enh_row_key(r, site, enhancement_name, date_val) ==
    py_join(<<site, enhancement_name, OrEmpty(r.url), OrEmpty(r.status),
              OrEmpty(r.last_crawled), OrEmpty(date_val)>>)

\* the body of the loop of main() for one file: the frame appended to all_new
enh_details(f) ==
    LET meta == parse_filename_metadata(f)
        site == OrEmpty(meta.site)
        enhancement_name == OrEmpty(meta.enhancement_name)
        kept == SelectSeq(f.table, LAMBDA t : t.URL # None)
    IN  IF f.table = <<>> THEN <<>>
        ELSE [i \in DOMAIN kept |->
                LET r == [site |-> site, date |-> meta.date,
                          enhancement_name |-> enhancement_name, url |-> kept[i].URL,
                          status |-> meta.status_hint, last_crawled |-> None,
                          unique_key |-> None]
                IN  [r EXCEPT !.unique_key = enh_row_key(r, site, enhancement_name, meta.date)]]

\* get_existing_unique_keys
enh_get_existing_unique_keys(snk, ok) == IF ok THEN SinkKeys(snk) ELSE {}

\* upload_to_bq keeps the columns of the table: the frame has no page column
\* (the URL is in url), so page is stored empty
enh_stored(df) ==
    [i \in DOMAIN df |->
        [site |-> df[i].site, date |-> df[i].date,
         enhancement_name |-> df[i].enhancement_name, page |-> None,
         status |-> df[i].status, last_crawled |-> df[i].last_crawled,
         unique_key |-> df[i].unique_key]]

\* upload_to_bq(df): the table after the call; debug writes a preview CSV only
enh_upload_to_bq(snk, df, dbg, ok) ==
    IF df = <<>> THEN snk
    ELSE IF dbg THEN snk
    ELSE IF ok THEN snk \o enh_stored(df)
    ELSE snk

\* main(): ensure_table_exists(); existing_keys = get_existing_unique_keys()
enh_load_keys ==
    /\ script = "enh"
    /\ pc = "load_keys"
    /\ \E ok \in BOOLEAN :
          /\ existing_keys' = enh_get_existing_unique_keys(sink, ok)
          /\ hist' = [hist EXCEPT !.idxFail = ~ok]
    /\ pc' = IF data = {} THEN "upload" ELSE "files"
    /\ UNCHANGED <<script, data, country_map, sink, run, debug, pass, start_row, existing_bq_keys,
                   batch_new, acc_rows, inserted, reqLog, srcFails, writeFails>>

\* main(): one iteration of the loop over the sorted files of the folder;
\* existing_keys is not read
enh_file ==
    /\ script = "enh"
    /\ pc = "files"
    /\ acc_rows' = acc_rows \o enh_details(EnhFiles[pass])
    /\ IF pass < Cardinality(data) THEN pass' = pass + 1 /\ pc' = "files"
                                   ELSE pass' = pass /\ pc' = "upload"
    /\ UNCHANGED <<script, data, country_map, sink, run, debug, start_row, existing_keys,
                   existing_bq_keys, batch_new, inserted, reqLog, srcFails, writeFails,
                   hist>>

\* main(): upload_to_bq(final_df)
enh_upload ==
    /\ script = "enh"
    /\ pc = "upload"
    /\ \E ok \in BOOLEAN :
          /\ ok \/ (~debug /\ writeFails < MaxWriteFail /\ acc_rows # <<>>)
          /\ sink' = enh_upload_to_bq(sink, acc_rows, debug, ok)
          /\ writeFails' = IF ok THEN writeFails ELSE writeFails + 1
    /\ pc' = "done"
    /\ hist' = Offer(acc_rows)
    /\ UNCHANGED <<script, data, country_map, run, debug, pass, start_row, existing_keys,
                   existing_bq_keys, batch_new, acc_rows, inserted, reqLog, srcFails>>

enh_next == enh_load_keys \/ enh_file \/ enh_upload

InitEnh ==
    /\ script = "enh"
    /\ data \in DataSets
    /\ country_map = NoCountryTable
    /\ sink = <<>>
    /\ run = 1
    /\ debug \in BOOLEAN
    /\ pc = "load_keys"
    /\ pass = 1
    /\ start_row = 0
    /\ existing_keys = {}
    /\ existing_bq_keys = {}
    /\ batch_new = <<>>
    /\ acc_rows = <<>>
    /\ inserted = NoInserted
    /\ reqLog = <<>>
    /\ srcFails = 0
    /\ writeFails = 0
    /\ hist = NoHist

NextEnh == StartRun \/ enh_next
SpecEnh == InitEnh /\ [][NextEnh]_vars

----------------------------------------------------------------------------
(* direct_allocation of the SearchAppearance loader on its own: the function
   is handed a raw frame and a mapping frame *)

\* rows of the raw frame handed to direct_allocation
MaxRaw == 2

\* a row of the raw table: a day's snapshot of a SearchAppearance under a fetch
RawRow(n, sa, m, fid) ==
    [Date |-> Day(n), SearchAppearance |-> sa, Clicks |-> m.clicks,
     Impressions |-> m.impressions, CTR |-> m.ctr, Position |-> m.position,
     fetch_id |-> fid,
     unique_key |-> IF sa = NO_APPEARANCE THEN sa_placeholder_key(n) ELSE sa_row_key(sa, n)]

AllocRawRows ==
    {RawRow(n, sa, m, fid) :
        n \in Days, sa \in {<<"FAQ">>, <<"amp">>, NO_APPEARANCE},
        m \in {Metrics(1, 2, 50, 1), ZeroMetrics}, fid \in {<<"f1">>, <<"f2">>}}

AllocFrames == UNION {[1 .. n -> AllocRawRows] : n \in 0 .. MaxRaw}

\* mapping_df: None, or a frame of rows (SearchAppearance, TargetEntity)
NoMapping == [is_none |-> TRUE, rows |-> <<>>]
Mapping(rows) == [is_none |-> FALSE, rows |-> rows]

AllocMappings ==
    {NoMapping, Mapping(<<>>),
     Mapping(<<[SearchAppearance |-> <<"FAQ">>, TargetEntity |-> <<"rich">>]>>),
     Mapping(<<[SearchAppearance |-> <<"FAQ">>, TargetEntity |-> <<"rich">>],
               [SearchAppearance |-> <<"FAQ">>, TargetEntity |-> <<"faq">>],
               [SearchAppearance |-> <<"amp">>, TargetEntity |-> <<"rich">>]>>)}

\* df_raw['SearchAppearance'].unique(), paired with itself
RECURSIVE alloc_identity_mapping(_, _)
alloc_identity_mapping(df_raw, seen) ==
    IF df_raw = <<>> THEN <<>>
    ELSE LET sa == Head(df_raw).SearchAppearance
         IN  IF sa \in seen THEN alloc_identity_mapping(Tail(df_raw), seen)
             ELSE <<[SearchAppearance |-> sa, TargetEntity |-> sa]>>
                  \o alloc_identity_mapping(Tail(df_raw), seen \cup {sa})

\* one row of df with its allocation columns and its key:
\*   sha256(f"{SearchAppearance}|{TargetEntity}|{fetch_id}")
alloc_row(r, te) ==
    [SearchAppearance |-> r.SearchAppearance, TargetEntity |-> te,
     AllocationMethod |-> "direct", AllocationWeight |-> 1,
     Clicks_alloc |-> r.Clicks, Impressions_alloc |-> r.Impressions,
     CTR_alloc |-> (100 * r.Clicks) \div (IF r.Impressions = 0 THEN 1 ELSE r.Impressions),
     Position_alloc |-> r.Position, fetch_id |-> r.fetch_id,
     unique_key |-> py_join(<<r.SearchAppearance, te, r.fetch_id>>)]

\* df_raw.merge(mapping_df, on='SearchAppearance', how='left'), keyed: a raw
\* row gives one row per mapping row of its SearchAppearance, and one row with
\* TargetEntity NaN when the mapping has none
RECURSIVE alloc_merge(_, _)
alloc_merge(df_raw, mapping_df) ==
    IF df_raw = <<>> THEN <<>>
    ELSE LET r == Head(df_raw)
             hits == SelectSeq(mapping_df, LAMBDA m : m.SearchAppearance = r.SearchAppearance)
             rows == IF hits = <<>> THEN <<alloc_row(r, <<"nan">>)>>
                     ELSE [i \in DOMAIN hits |-> alloc_row(r, hits[i].TargetEntity)]
         IN  rows \o alloc_merge(Tail(df_raw), mapping_df)

\* df.drop_duplicates(subset=['unique_key']): the first row of every key
RECURSIVE drop_duplicates(_, _)
drop_duplicates(df, seen) ==
    IF df = <<>> THEN <<>>
    ELSE IF Head(df).unique_key \in seen THEN drop_duplicates(Tail(df), seen)
    ELSE <<Head(df)>> \o drop_duplicates(Tail(df), seen \cup {Head(df).unique_key})

\* variant: the duplicates of a key are kept
direct_allocation_keeps_duplicates(df_raw, mapping_df) ==
    IF df_raw = <<>> THEN <<>>
    ELSE alloc_merge(df_raw, IF mapping_df.is_none \/ mapping_df.rows = <<>>
                             THEN alloc_identity_mapping(df_raw, {}) ELSE mapping_df.rows)

direct_allocation(df_raw, mapping_df) ==
    IF df_raw = <<>> THEN <<>>
    ELSE LET mapping == IF mapping_df.is_none \/ mapping_df.rows = <<>>
                        THEN alloc_identity_mapping(df_raw, {})
                        ELSE mapping_df.rows
         IN  drop_duplicates(alloc_merge(df_raw, mapping), {})

\* batch_new holds df_raw, data holds mapping_df, acc_rows takes the result
InitAlloc ==
    /\ script = "sa"
    /\ data \in AllocMappings
    /\ country_map = NoCountryTable
    /\ sink = <<>>
    /\ run = 1
    /\ debug = FALSE
    /\ pc = "allocate"
    /\ pass = 1
    /\ start_row = 0
    /\ existing_keys = {}
    /\ existing_bq_keys = {}
    /\ batch_new \in AllocFrames
    /\ acc_rows = <<>>
    /\ inserted = NoInserted
    /\ reqLog = <<>>
    /\ srcFails = 0
    /\ writeFails = 0
    /\ hist = NoHist

\* df_alloc = direct_allocation(df_raw, mapping_df)
alloc_call ==
    /\ pc = "allocate"
    /\ acc_rows' = direct_allocation(batch_new, data)
    /\ pc' = "allocated"
    /\ UNCHANGED <<script, data, country_map, sink, run, debug, pass, start_row, existing_keys,
                   existing_bq_keys, batch_new, inserted, reqLog, srcFails, writeFails,
                   hist>>

SpecAlloc == InitAlloc /\ [][alloc_call]_vars

----------------------------------------------------------------------------
(* The incremental loader, Rev 4 (src/src/tests/gsc_to_bq.py), from the start
   of its __main__ block, the access check passed.  Its stable_key,
   get_existing_keys and upload_to_bq are those of rev3 statement for
   statement, with DEBUG_MODE in the place of the debug argument. *)

rev4_request == Request(<<"date", "query", "page">>, "web", 1, NDays)

\* fetch_gsc_data: existing_keys = get_existing_keys()
rev4_load_keys ==
    /\ script = "rev4"
    /\ pc = "load_keys"
    /\ \E ok \in BOOLEAN :
          /\ existing_keys' = rev3_get_existing_keys(sink, ok)
          /\ hist' = [hist EXCEPT !.idxFail = ~ok]
    /\ pc' = "fetch"
    /\ UNCHANGED <<script, data, country_map, sink, run, debug, pass, start_row, existing_bq_keys,
                   batch_new, acc_rows, inserted, reqLog, srcFails, writeFails>>

\* the request raises: sleep RETRY_DELAY and continue
rev4_query_raises ==
    /\ script = "rev4"
    /\ pc = "fetch"
    /\ srcFails < MaxSrcFail
    /\ srcFails' = srcFails + 1
    /\ reqLog' = LogReq(FALSE)
    /\ UNCHANGED <<script, data, country_map, sink, run, debug, pc, pass, start_row, existing_keys,
                   existing_bq_keys, batch_new, acc_rows, inserted, writeFails, hist>>

\* one page is returned and filtered against the Dedup Index
rev4_fetch_page ==
    /\ script = "rev4"
    /\ pc = "fetch"
    /\ LET rows == query("web", data, rev4_request, start_row)
           f == FilterNew(rev3_rows(rows), existing_keys)
       IN  /\ reqLog' = LogReq(TRUE)
           /\ IF rows = <<>>
              THEN /\ pc' = "summary"
                   /\ UNCHANGED <<start_row, existing_keys, batch_new>>
              ELSE /\ existing_keys' = f.keys
                   /\ batch_new' = f.new
                   /\ IF f.new # <<>> THEN pc' = "upload" /\ start_row' = start_row
                      ELSE IF Len(rows) < ROW_LIMIT
                      THEN pc' = "summary" /\ start_row' = start_row
                      ELSE pc' = "fetch" /\ start_row' = start_row + Len(rows)
    /\ UNCHANGED <<script, data, country_map, sink, run, debug, pass, existing_bq_keys, acc_rows,
                   inserted, srcFails, writeFails, hist>>

\* upload_to_bq(df_batch) and the end of the loop body; all_rows is not
\* extended
rev4_upload ==
    /\ script = "rev4"
    /\ pc = "upload"
    /\ \E ok \in BOOLEAN :
          /\ ok \/ (~debug /\ writeFails < MaxWriteFail)
          /\ sink' = rev3_upload_to_bq(sink, batch_new, debug, ok)
          /\ writeFails' = IF ok THEN writeFails ELSE writeFails + 1
          /\ hist' = Offer(batch_new)
    /\ batch_new' = <<>>
    /\ LET n == Len(query("web", data, rev4_request, start_row))
       IN  IF n < ROW_LIMIT
           THEN pc' = "summary" /\ start_row' = start_row
           ELSE pc' = "fetch" /\ start_row' = start_row + n
    /\ UNCHANGED <<script, data, country_map, run, debug, pass, existing_keys, existing_bq_keys,
                   acc_rows, inserted, reqLog, srcFails>>

\* __main__ after fetch_gsc_data: total_new_rows = 0, replaced by
\* len(new_rows) only if a variable new_rows exists; the module assigns none.
\* inserted.main is the number printed as "Total new rows"
rev4_summary ==
    /\ script = "rev4"
    /\ pc = "summary"
    /\ LET locals == {"df", "total_new_rows"}
           total_new_rows == IF "new_rows" \in locals THEN Len(acc_rows) ELSE 0
       IN  inserted' = [inserted EXCEPT !.main = total_new_rows]
    /\ pc' = "done"
    /\ UNCHANGED <<script, data, country_map, sink, run, debug, pass, start_row, existing_keys,
                   existing_bq_keys, batch_new, acc_rows, reqLog, srcFails, writeFails, hist>>

rev4_next ==
    \/ rev4_load_keys \/ rev4_query_raises \/ rev4_fetch_page \/ rev4_upload
    \/ rev4_summary

InitRev4 ==
    /\ script = "rev4"
    /\ data \in DataSets
    /\ country_map = NoCountryTable
    /\ sink = <<>>
    /\ run = 1
    /\ debug \in BOOLEAN
    /\ pc = "load_keys"
    /\ pass = 1
    /\ start_row = 0
    /\ existing_keys = {}
    /\ existing_bq_keys = {}
    /\ batch_new = <<>>
    /\ acc_rows = <<>>
    /\ inserted = NoInserted
    /\ reqLog = <<>>
    /\ srcFails = 0
    /\ writeFails = 0
    /\ hist = NoHist

NextRev4 == StartRun \/ rev4_next
SpecRev4 == InitRev4 /\ [][NextRev4]_vars

----------------------------------------------------------------------------
(* upload_to_bq of the SearchAppearance loader on its own: the function is
   handed a frame whose metric cells may hold anything *)

UploadCells ==
    {MetricCell("number", 0), MetricCell("number", 1), MetricCell("none", 0),
     MetricCell("text", 0), MetricCell("numeric text", 3)}

\* a row of the allocation frame with the given metric cells
AllocCellsRow(sa, m) ==
    [SearchAppearance |-> sa, TargetEntity |-> sa, AllocationMethod |-> "direct",
     AllocationWeight |-> 1, Clicks_alloc |-> m.clicks, Impressions_alloc |-> m.impressions,
     CTR_alloc |-> m.ctr, Position_alloc |-> m.position, fetch_id |-> <<"f1">>,
     unique_key |-> py_join(<<sa, sa, <<"f1">>>>)]

\* the frames handed to upload_to_bq: one row with any cells, alone or
\* followed by a row of numbers
UploadFrames ==
    LET ms == {Metrics(a, b, c, d) : a \in UploadCells, b \in UploadCells,
                                     c \in UploadCells, d \in UploadCells}
    IN  UNION {{<<RawRow(1, <<"FAQ">>, m, <<"f1">>)>>,
                <<RawRow(1, <<"FAQ">>, m, <<"f1">>),
                  RawRow(NDays, <<"amp">>, Metrics(1, 2, 50, 1), <<"f1">>)>>,
                <<AllocCellsRow(<<"FAQ">>, m)>>,
                <<AllocCellsRow(<<"FAQ">>, m),
                  AllocCellsRow(<<"amp">>, Metrics(1, 2, 50, 1))>>} : m \in ms}

\* batch_new holds df, sink the target table
InitUploadCall ==
    /\ script = "sa"
    /\ data = {}
    /\ country_map = NoCountryTable
    /\ sink = <<>>
    /\ run = 1
    /\ debug \in BOOLEAN
    /\ pc = "upload_call"
    /\ pass = 1
    /\ start_row = 0
    /\ existing_keys = {}
    /\ existing_bq_keys = {}
    /\ batch_new \in UploadFrames
    /\ acc_rows = <<>>
    /\ inserted = NoInserted
    /\ reqLog = <<>>
    /\ srcFails = 0
    /\ writeFails = 0
    /\ hist = NoHist

\* upload_to_bq(df, table_name): the metric columns are assigned on df itself,
\* the caller's frame, before the key filter, the debug return and the load
\* job: after the call the caller holds the coerced frame
upload_call ==
    /\ pc = "upload_call"
    /\ \E qok \in BOOLEAN, ok \in BOOLEAN :
          /\ ok \/ ~debug
          /\ sink' = sa_upload_to_bq(sink, batch_new, debug, qok, ok)
          /\ writeFails' = IF ok THEN writeFails ELSE writeFails + 1
    /\ batch_new' = sa_coerced(batch_new)
    /\ hist' = [hist EXCEPT !.handed = batch_new]
    /\ pc' = "uploaded"
    /\ UNCHANGED <<script, data, country_map, run, debug, pass, start_row, existing_keys,
                   existing_bq_keys, acc_rows, inserted, reqLog, srcFails>>

SpecUploadCall == InitUploadCall /\ [][upload_call]_vars

----------------------------------------------------------------------------
(* The key functions on their own: two rows are handed to one key function,
   in one run and again in the next, with the Dedup Index filled in between *)

\* gsc-to-bq.py: "|".join([Query or '', Page or '', str(Date)])
gsc_to_bq_stable_key(row) == py_join(<<OrEmpty(row.Query), OrEmpty(row.Page), row.Date>>)

\* test_hash.py: the same join
test_hash_stable_key(row) == py_join(<<OrEmpty(row.Query), OrEmpty(row.Page), row.Date>>)

KeyFunctions == {"rev3", "web", "others", "gsc-to-bq", "test_hash"}

\* the call of key function f on a row; p selects the dimension set handed to
\* generate_expanded_unique_key
derive_key(f, row, p) ==
    CASE f = "rev3" -> rev3_stable_key(row)
      [] f = "web" -> generate_expanded_unique_key(row, web_dims(p))
      [] f = "others" -> generate_unique_key(row)
      [] f = "gsc-to-bq" -> gsc_to_bq_stable_key(row)
      [] OTHER -> test_hash_stable_key(row)

\* field values the rows are drawn from
KeyQueries == {<<"Buy", Blank>>, <<"buy">>, <<"x.com", Slash, "a">>}
KeyPages == {PageA, PageA \o <<Slash>>, PageA \o <<Slash, Slash>>, <<"X.COM", Slash, "a">>}
KeyDates == {Day(1), Day(1) \o <<"T00:00:00">>, Day(NDays)}
KeyRows ==
    {Row(d, q, p, <<"usa">>, <<"mobile">>, None, Metrics(1, 2, 50, 1), "web", None) :
        d \in KeyDates, q \in KeyQueries, p \in KeyPages}

\* two rows, each with the fetch loop (dimension set) it came from
InitKeyPairs ==
    /\ script \in KeyFunctions
    /\ data = {}
    /\ country_map = NoCountryTable
    /\ sink = <<>>
    /\ run = 1
    /\ debug = FALSE
    /\ pc = "derive"
    /\ pass = 1
    /\ start_row = 0
    /\ existing_keys = {}
    /\ existing_bq_keys = {}
    /\ \E r1 \in KeyRows, r2 \in KeyRows : batch_new = <<r1, r2>>
    /\ acc_rows = <<>>
    /\ inserted = NoInserted
    /\ \E p1 \in 1 .. 8, p2 \in 1 .. 8 :
          /\ script # "web" => (p1 = 1 /\ p2 = 1)
          /\ reqLog = <<Req(p1, 0, TRUE), Req(p2, 0, TRUE)>>
    /\ srcFails = 0
    /\ writeFails = 0
    /\ hist = NoHist

\* both rows come from the same fetch loop
InitKeys == InitKeyPairs /\ reqLog[1].pass = reqLog[2].pass

\* the key function is called on each row; the keys go into the Dedup Index
key_call ==
    /\ pc = "derive"
    /\ LET keyed == [i \in DOMAIN batch_new |->
                        [batch_new[i] EXCEPT
                            !.unique_key = derive_key(script, batch_new[i], reqLog[i].pass)]]
       IN  /\ acc_rows' = acc_rows \o keyed
           /\ existing_keys' = existing_keys \cup {keyed[i].unique_key : i \in DOMAIN keyed}
    /\ pc' = "derived"
    /\ UNCHANGED <<script, data, country_map, sink, run, debug, pass, start_row, existing_bq_keys,
                   batch_new, inserted, reqLog, srcFails, writeFails, hist>>

\* the next run meets the same rows
key_again ==
    /\ pc = "derived"
    /\ run < MaxRuns
    /\ run' = run + 1
    /\ pc' = "derive"
    /\ UNCHANGED <<script, data, country_map, sink, debug, pass, start_row, existing_keys,
                   existing_bq_keys, batch_new, acc_rows, inserted, reqLog, srcFails,
                   writeFails, hist>>

NextKeys == key_call \/ key_again
SpecKeys == InitKeys /\ [][NextKeys]_vars
SpecKeyPairs == InitKeyPairs /\ [][key_call]_vars

Next == StartRun \/ write_to_bigquery \/ rev3_next \/ web_next \/ others_next \/ sa_next \/ sa1_next

Spec == Init /\ [][Next]_vars

\* a single run from an empty sink
NextOneRun == rev3_next \/ web_next \/ others_next \/ sa_next \/ sa1_next
SpecOneRun == Init /\ [][NextOneRun]_vars

\* the scripts with a sitewide pass, run and run again against a source that
\* answers every request
InitSitewide == Init /\ script \in {"web", "others"}
NextSourceUp ==
    \/ StartRun
    \/ web_load_keys
    \/ web_fetch_gsc_data_page \/ web_fetch_gsc_data_upload
    \/ web_collect_page \/ web_collect_upload \/ web_next_pass
    \/ web_load_sitewide_keys \/ web_sitewide_page \/ web_sitewide_upload
    \/ web_sitewide_placeholders \/ web_summary
    \/ others_load_keys
    \/ others_fetch_gsc_data_page \/ others_fetch_gsc_data_upload
    \/ others_collect_page \/ others_collect_upload \/ others_next_pass
    \/ others_sitewide_page \/ others_sitewide_upload
    \/ others_sitewide_placeholders \/ others_summary
SpecSourceUp == InitSitewide /\ [][NextSourceUp]_vars

\* the same runs with the country table written again between them
NextSourceUpCountry == NextSourceUp \/ write_to_bigquery
SpecSourceUpCountry == InitSitewide /\ [][NextSourceUpCountry]_vars

\* one script at a time
InitRev3 == Init /\ script = "rev3"
NextRev3 == StartRun \/ rev3_next
SpecRev3 == InitRev3 /\ [][NextRev3]_vars

InitWeb == Init /\ script = "web"
NextWeb == StartRun \/ write_to_bigquery \/ web_next
SpecWeb == InitWeb /\ [][NextWeb]_vars

\* the web script as a running process: main() goes on as long as it has a
\* statement to execute; a request fails at most MaxSrcFail times, so after
\* finitely many failures every request is answered
SpecWebLive == InitWeb /\ [][web_next]_vars /\ WF_vars(web_next)

\* between two runs the source comes to report more: the site got more traffic
\* on days of the range, so a later run is answered with larger totals
source_grows ==
    /\ pc = "done"
    /\ run < MaxRuns
    /\ \E d \in DataSets : data \subseteq d /\ d # data /\ data' = d
    /\ UNCHANGED <<script, country_map, sink, run, debug, pc, pass, start_row,
                   existing_keys, existing_bq_keys, batch_new, acc_rows, inserted, reqLog,
                   srcFails, writeFails, hist>>

\* runs of the web script over a source that grows between them
NextWebRefresh == StartRun \/ write_to_bigquery \/ source_grows \/ web_next
SpecWebRefresh == InitWeb /\ [][NextWebRefresh]_vars

InitOthers == Init /\ script = "others"
NextOthers == StartRun \/ write_to_bigquery \/ others_next
SpecOthers == InitOthers /\ [][NextOthers]_vars

InitSA == Init /\ script = "sa"
NextSA == StartRun \/ sa_next
SpecSA == InitSA /\ [][NextSA]_vars

InitSA1 == Init /\ script = "sa1"
NextSA1 == StartRun \/ sa1_next
SpecSA1 == InitSA1 /\ [][NextSA1]_vars

----------------------------------------------------------------------------
(* Two runs of the per-day SearchAppearance script that overlap in time on one
   table.  Each run is a process of its own: its control point, its day, its
   Dedup Index, its all_rows and the df_filtered of its upload_to_bq are the
   components pc[p], pass[p], existing_keys[p], acc_rows[p], batch_new[p].
   The runs meet in the table only: a step is the code between two accesses
   to it. *)

TwoRuns == {1, 2}

InitTwoRuns ==
    /\ script = "sa"
    /\ data \in DataSets
    /\ country_map = NoCountryTable
    /\ sink = <<>>
    /\ run = 1
    /\ debug = FALSE
    /\ pc = [p \in TwoRuns |-> "load_keys"]
    /\ pass = [p \in TwoRuns |-> 1]
    /\ start_row = 0
    /\ existing_keys = [p \in TwoRuns |-> {}]
    /\ existing_bq_keys = {}
    /\ batch_new = [p \in TwoRuns |-> <<>>]
    /\ acc_rows = [p \in TwoRuns |-> <<>>]
    /\ inserted = NoInserted
    /\ reqLog = <<>>
    /\ srcFails = 0
    /\ writeFails = 0
    /\ hist = NoHist

\* fetch_searchappearance_data of run p: existing_keys = get_existing_keys()
two_load_keys(p) ==
    /\ pc[p] = "load_keys"
    /\ \E ok \in BOOLEAN :
          existing_keys' = [existing_keys EXCEPT ![p] = sa_get_existing_keys(sink, ok)]
    /\ pc' = [pc EXCEPT ![p] = "fetch"]
    /\ UNCHANGED <<script, data, country_map, sink, run, debug, pass, start_row, existing_bq_keys,
                   batch_new, acc_rows, inserted, reqLog, srcFails, writeFails, hist>>

\* one day of the per-day loop of run p; the request may raise
two_day(p) ==
    /\ pc[p] = "fetch"
    /\ \E ok \in BOOLEAN :
          /\ ok \/ srcFails < MaxSrcFail
          /\ srcFails' = IF ok THEN srcFails ELSE srcFails + 1
          /\ LET rows == query(script, data, sa_request(pass[p]), 0)
                 f == sa_fetch_day(pass[p], rows, ok, existing_keys[p])
             IN  /\ existing_keys' = [existing_keys EXCEPT ![p] = f.keys]
                 /\ acc_rows' = [acc_rows EXCEPT ![p] = @ \o f.new]
    /\ IF pass[p] < NDays
       THEN pass' = [pass EXCEPT ![p] = @ + 1] /\ pc' = pc
       ELSE pass' = pass /\ pc' = [pc EXCEPT ![p] = "upload"]
    /\ UNCHANGED <<script, data, country_map, sink, run, debug, start_row, existing_bq_keys, batch_new,
                   inserted, reqLog, writeFails, hist>>

\* upload_to_bq(df_new, BQ_TABLE_RAW) of run p up to the load job: the metric
\* columns are coerced, the table's keys queried and the frame filtered
two_upload_filter(p) ==
    /\ pc[p] = "upload"
    /\ \E qok \in BOOLEAN :
          batch_new' = [batch_new EXCEPT ![p] = sa_df_filtered(sink, sa_coerced(acc_rows[p]), qok)]
    /\ acc_rows' = [acc_rows EXCEPT ![p] = sa_coerced(@)]
    /\ pc' = [pc EXCEPT ![p] = IF batch_new'[p] = <<>> THEN "done" ELSE "write"]
    /\ UNCHANGED <<script, data, country_map, sink, run, debug, pass, start_row, existing_keys,
                   existing_bq_keys, inserted, reqLog, srcFails, writeFails, hist>>

\* upload_to_bq of run p: the WRITE_APPEND load job of df_filtered
two_upload_write(p) ==
    /\ pc[p] = "write"
    /\ \E ok \in BOOLEAN :
          /\ ok \/ writeFails < MaxWriteFail
          /\ sink' = IF ok THEN sink \o sa_stored(batch_new[p]) ELSE sink
          /\ writeFails' = IF ok THEN writeFails ELSE writeFails + 1
    /\ pc' = [pc EXCEPT ![p] = "done"]
    /\ UNCHANGED <<script, data, country_map, run, debug, pass, start_row, existing_keys,
                   existing_bq_keys, batch_new, acc_rows, inserted, reqLog, srcFails, hist>>

NextTwoRuns ==
    \E p \in TwoRuns :
        two_load_keys(p) \/ two_day(p) \/ two_upload_filter(p) \/ two_upload_write(p)

SpecTwoRuns == InitTwoRuns /\ [][NextTwoRuns]_vars

----------------------------------------------------------------------------
(* Properties *)

\* the rows the source holds for the request of fetch loop p
Answer(p) ==
    Answers[IF script = "rev3" THEN "web" ELSE IF script = "sa1" THEN "sa" ELSE script, data,
            IF script = "rev3" THEN rev3_request
            ELSE IF script = "web" THEN web_request(p)
            ELSE IF script = "others" THEN others_request(p)
            ELSE IF script = "sa1" THEN sa1_request
            ELSE sa_request(p)]

\* the rows the sink held when the current run started, and those appended since
SinkAtStart == SubSeq(sink, 1, hist.sink0)
Appended == SubSeq(sink, hist.sink0 + 1, Len(sink))

\* every sink write of the current run succeeded so far
WritesOk == writeFails = hist.wf0

\* the most recent fetch loop has ended
LoopDone == reqLog # <<>> /\ (reqLog[1].pass # pass \/ pc \notin {"fetch", "upload", "crashed"})

\* no request of the most recent fetch loop raised
AllOk == \A i \in DOMAIN reqLog : reqLog[i].ok

IsSitewideRow(r, n) == r.Date = Day(n) /\ r.Query = SITE_TOTAL /\ r.Page = SITE_TOTAL

\* C1: in the web script the sink never holds two rows with the same
\* unique_key, whatever the sequence of runs and index-load failures
C1_NoDuplicateKeys ==
    script = "web" =>
        \A i, j \in DOMAIN sink : i # j => sink[i].unique_key # sink[j].unique_key

\* C2: when rev3 is run again over the same source rows after a complete
\* non-debug run, and every sink read and write of both runs succeeds, the later
\* run appends no row
C2_SecondRunAppendsNothing ==
    (script = "rev3" /\ run > 1 /\ hist.prevClean /\ ~hist.idxFail /\ WritesOk)
        => Len(sink) = hist.sink0

C2_Witness ==
    /\ script = "rev3" /\ run > 1 /\ hist.prevClean /\ ~hist.idxFail /\ WritesOk
    /\ ~debug /\ pc = "done"
    /\ hist.sink0 > 0
    /\ \E i \in DOMAIN reqLog : reqLog[i].ok /\ query(script, data, rev3_request, reqLog[i].startRow) # <<>>

\* C3: after fetch_sitewide_batch has completed in a non-debug run whose
\* writes all succeeded, the sink holds a __SITE_TOTAL__ row for every day of
\* the range
C3_EveryDayHasSitewideRow ==
    (script \in {"web", "others"} /\ pc \in {"summary", "done"} /\ ~debug /\ WritesOk)
        => \A n \in Days : \E i \in DOMAIN sink : IsSitewideRow(sink[i], n)

\* C4: after the SearchAppearance fetch and a successful non-debug upload the
\* raw sink holds, for every day of the range, a real row of that day when the
\* source returned rows for it and the day's placeholder otherwise
C4_EveryDayHasRow ==
    (script = "sa" /\ pc = "done" /\ ~debug /\ WritesOk)
        => \A n \in Days :
              LET returned == n \notin hist.fetch_error /\ Answer(n) # <<>>
              IN  \E i \in DOMAIN sink :
                     /\ sink[i].Date = Day(n)
                     /\ returned <=> sink[i].SearchAppearance # NO_APPEARANCE

C4_Witness ==
    /\ script = "sa" /\ pc = "done" /\ ~debug /\ WritesOk
    /\ \E n \in Days : Answer(n) = <<>> /\ \E i \in DOMAIN Appended :
          Appended[i].Date = Day(n) /\ Appended[i].SearchAppearance = NO_APPEARANCE
    /\ \E n \in Days : Answer(n) # <<>> /\ \E i \in DOMAIN Appended :
          Appended[i].Date = Day(n) /\ Appended[i].SearchAppearance # NO_APPEARANCE

\* C5: when every day of the range already had a real sitewide row in the sink
\* at the start of a run, the gap-fill of that run creates no placeholder
C5_NoPlaceholderWhenCovered ==
    (/\ script \in {"web", "others"}
     /\ pc \in {"summary", "done"}
     /\ \A n \in Days : \E i \in DOMAIN SinkAtStart :
           IsSitewideRow(SinkAtStart[i], n) /\ SinkAtStart[i].Clicks > 0)
        => hist.placeholders = <<>>

\* the run fetched the sitewide rows again, found none of them new, and the
\* gap-fill ran over an empty list of new rows
C5_Witness ==
    /\ script \in {"web", "others"}
    /\ pc = "summary"
    /\ \A n \in Days : \E i \in DOMAIN SinkAtStart :
          IsSitewideRow(SinkAtStart[i], n) /\ SinkAtStart[i].Clicks > 0
    /\ ~hist.idxFail
    /\ acc_rows = <<>>
    /\ reqLog # <<>> /\ AllOk
    /\ hist.placeholders = <<>>

\* C6: a paged fetch loop in which no request raises issues its requests at
\* startRow 0, ROW_LIMIT, 2*ROW_LIMIT, ... and ends after the first page shorter
\* than ROW_LIMIT: k requests, where pages 1 .. k-1 are full and page k is not
C6_Pagination ==
    (script \notin {"sa", "sa1"} /\ AllOk) =>
        LET k == (Len(Answer(reqLog[1].pass)) \div ROW_LIMIT) + 1
        IN  /\ \A i \in DOMAIN reqLog : reqLog[i].startRow = (i - 1) * ROW_LIMIT
            /\ reqLog # <<>> => Len(reqLog) <= k
            /\ LoopDone => Len(reqLog) = k

C6_Witness ==
    /\ script \notin {"sa", "sa1"} /\ AllOk /\ LoopDone
    /\ Len(reqLog) = 3
    /\ Len(Answer(reqLog[1].pass)) >= 2 * ROW_LIMIT

\* C7: in rev3, when the first request raises, the later ones return and the
\* source holds two rows that are new to the Dedup Index, the second request
\* has the startRow of the failed one, both rows are taken as new, and a
\* non-debug run whose write succeeds appends exactly those two rows
C7_RetryThenPersist ==
    LET rows == rev3_rows(Answer(1))
        index == rev3_get_existing_keys(SinkAtStart, ~hist.idxFail)
    IN  (/\ script = "rev3"
         /\ pc = "done"
         /\ reqLog # <<>>
         /\ ~reqLog[1].ok
         /\ \A i \in DOMAIN reqLog : i > 1 => reqLog[i].ok
         /\ Len(rows) = 2
         /\ rows[1].unique_key # rows[2].unique_key
         /\ \A i \in DOMAIN rows : rows[i].unique_key \notin index)
            => /\ Len(reqLog) >= 2
               /\ reqLog[2].startRow = reqLog[1].startRow
               /\ acc_rows = rows
               /\ (~debug /\ WritesOk) => Appended = StoredDates(rows)

C7_Witness ==
    /\ script = "rev3"
    /\ pc = "done"
    /\ Len(reqLog) >= 2
    /\ ~reqLog[1].ok
    /\ reqLog[2].ok
    /\ Len(Answer(1)) = 2
    /\ Len(acc_rows) = 2
    /\ ~debug /\ WritesOk
    /\ Len(Appended) = 2

\* C8: a source request that raises is recovered by repeating the same
\* request: the step of the exception leaves the fetch loop where it was
\* (same pass, same startRow), aborts no pass and marks no day as failed
C8_RetriedNeverSurfaced ==
    [][srcFails' > srcFails =>
          /\ pc' = pc /\ pass' = pass /\ start_row' = start_row
          /\ hist'.aborted = hist.aborted
          /\ hist'.fetch_error = hist.fetch_error]_vars

\* C9: no failure to read the sink's keys aborts the run
C9_ReadFailureNeverAborts ==
    pc # "aborted"

\* C10: an append never writes a row whose key is in the table at the time
\* of the write
C10_AppendWritesNoPresentKey ==
    [][\A i \in (Len(sink) + 1) .. Len(sink') : sink'[i].unique_key \notin SinkKeys(sink)]_vars

\* C11: when the debug flag is set, no row is appended to the sink during the
\* whole run: the sink at the end of the run is the sink at its start
C11_DebugAppendsNothing ==
    debug => Len(sink) = hist.sink0

\* C12: a failed sink write is only logged: the step of the failed write
\* leaves the sink and the inserted counts as they were, and the run goes on
\* where a successful write would have gone on: to the next page after a full
\* page, and out of the write (to the next pass or step, never to an abort)
\* after the last write of a loop
C12_WriteFailureOnlyLogged ==
    [][writeFails' > writeFails =>
          /\ sink' = sink
          /\ inserted' = inserted
          /\ pc' \notin {"aborted", "upload", "upload_pass"}
          /\ (pc = "upload" /\ Len(Answer(pass)) - start_row >= ROW_LIMIT) =>
                (pc' = "fetch" /\ pass' = pass /\ start_row' = start_row + ROW_LIMIT)
          /\ (pc = "upload" /\ Len(Answer(pass)) - start_row < ROW_LIMIT) =>
                (pass' # pass \/ pc' # "fetch")]_vars

\* the write of the first page of the web script's first batch failed and the
\* run is about to request the second page
C12_Witness ==
    /\ script = "web"
    /\ ~debug
    /\ writeFails > hist.wf0
    /\ pc = "fetch"
    /\ pass = 1
    /\ start_row = ROW_LIMIT
    /\ Appended = <<>>
    /\ inserted = NoInserted
    /\ existing_keys # {}

\* C13: in every pass the new rows of a page are written before the next page
\* is requested: when a pass is about to request a page after its first, the
\* rows it took as new from the earlier pages are in the sink (in a non-debug
\* run whose writes succeed), so a crash loses the page in flight at most
C13_PageWrittenBeforeNextRequest ==
    (pc = "fetch" /\ start_row > 0 /\ ~debug /\ WritesOk) =>
        \A i \in DOMAIN acc_rows : acc_rows[i].unique_key \in SinkKeys(sink)

\* C14: the passes of a run share one Dedup Index: a key that a page or pass
\* of the run took as new is not taken as new again later in the run, so no
\* key is handed to upload_to_bq twice in one run, and the rows waiting for
\* their write carry keys not handed over before
C14_KeyOfferedOnce ==
    /\ \A i, j \in DOMAIN hist.offered : hist.offered[i] = hist.offered[j] => i = j
    /\ \A i \in DOMAIN batch_new :
          \A j \in DOMAIN hist.offered : batch_new[i].unique_key # hist.offered[j]

\* Batch 7 of the web script, started on an empty sink, met over its pages more
\* candidate rows than it took as new, and handed over the ones it took
C14_Witness ==
    /\ script = "web"
    /\ pass = 7
    /\ pc = "next_pass"
    /\ hist.sink0 = 0
    /\ Len(Answer(7)) > ROW_LIMIT
    /\ acc_rows # <<>>
    /\ Len(acc_rows) < Len(web_b7_rows(Answer(7)))
    /\ \A i \in DOMAIN acc_rows :
          \E j \in DOMAIN hist.offered : hist.offered[j] = acc_rows[i].unique_key

\* C15: in the sitewide pass the placeholders are computed once per run, only
\* after the paged fetch of the pass reached its terminal page (a request that
\* returned, with less than a full page), and a placeholder is created only if
\* its key is neither among the keys loaded from the sink nor in the in-run
\* Dedup Index
C15_GapFillOnceAfterTerminalPage ==
    [][/\ (pc # "placeholders" /\ pc' = "placeholders") =>
             /\ pc \in {"fetch", "upload"}
             /\ reqLog' # <<>>
             /\ LET last == reqLog'[Len(reqLog')]
                IN  /\ last.pass = pass
                    /\ last.ok
                    /\ last.startRow = start_row
                    /\ Len(Answer(pass)) - last.startRow < ROW_LIMIT
             /\ hist.placeholders = <<>>
       /\ (pc = "placeholders" /\ pc' # "placeholders") =>
             /\ pc' = "summary"
             /\ \A i \in DOMAIN hist'.placeholders :
                   /\ hist'.placeholders[i].unique_key \notin existing_bq_keys
                   /\ hist'.placeholders[i].unique_key \notin existing_keys
       /\ (pc \in {"summary", "done"} /\ script \in {"web", "others"}) =>
             pc' \in {"summary", "done", "load_keys"}]_vars

\* a later run of the web script whose index load failed: the gap-fill found a
\* day without a new sitewide row, created no placeholder for it because the
\* day's key was among the keys loaded from the sink, and created one for
\* another day
C15_Witness ==
    /\ script = "web"
    /\ pc = "summary"
    /\ run > 1
    /\ hist.idxFail
    /\ existing_bq_keys # {}
    /\ Len(hist.placeholders) = 1
    /\ \E n \in Days :
          /\ web_sitewide_row(Day(n), ZeroMetrics).unique_key \in existing_bq_keys
          /\ ~\E i \in DOMAIN acc_rows : acc_rows[i].Date = Day(n)
          /\ ~\E i \in DOMAIN hist.placeholders : hist.placeholders[i].Date = Day(n)

\* C16: when the access check made at start-up fails, the process ends with
\* exit status 1 there and then: no index load, no source query and no write
\* (not even an offer to the writer) happens in that run
C16_AccessFailureEndsRun ==
    /\ hist.accessFail <=> pc = "exit_1"
    /\ hist.accessFail =>
          /\ reqLog = <<>>
          /\ existing_keys = {}
          /\ ~hist.idxFail
          /\ hist.offered = <<>>
          /\ Len(sink) = hist.sink0

\* a later run against a sink that holds rows, ended by the access check: the
\* index is empty (and no load failed), so the sink was not read
C16_Witness ==
    /\ script = "rev3"
    /\ run > 1
    /\ sink # <<>>
    /\ hist.accessFail
    /\ pc = "exit_1"
    /\ data # {}

\* C17: the inserted counts the run reports in its final summary add up to
\* the number of rows the run appended to the sink, in debug runs and after
\* write failures as well
C17_ReportedTotalsMatchSink ==
    (script \in {"web", "others"} /\ pc = "done") =>
        inserted.main + inserted.noindex + inserted.b7 + inserted.site = Len(Appended)

\* C18: the unique_key of every row the run has appended to the sink is in the
\* Dedup Index of the run, so a later page or pass that derives the key skips
\* the row
C18_WrittenKeysInIndex ==
    \A i \in DOMAIN Appended : Appended[i].unique_key \in existing_keys

\* the web script wrote the rows of its first batch after a failed index load
\* and is fetching a later batch
C18_Witness ==
    /\ script = "web"
    /\ ~debug
    /\ hist.idxFail
    /\ pc = "fetch"
    /\ pass > 1
    /\ Len(Appended) > 1
    /\ inserted.main = Len(Appended)

\* C19: writes are append-only: every step, whatever page, pass or failure it
\* belongs to, leaves the rows already stored in place and unchanged; the sink
\* after the step is the sink before it, possibly followed by new rows
C19_AppendOnly ==
    [][/\ Len(sink') >= Len(sink)
       /\ SubSeq(sink', 1, Len(sink)) = sink]_vars

\* a run of the web script that is over: one of its writes failed, and writes
\* of at least two passes were appended to the sink one after the other
C19_Witness ==
    /\ script = "web"
    /\ pc = "done"
    /\ ~debug
    /\ writeFails > hist.wf0
    /\ inserted.main > 0
    /\ inserted.b7 > 0
    /\ Len(Appended) = inserted.main + inserted.noindex + inserted.b7 + inserted.site

\* C20: a later run of rev3 over the same range whose index load and writes
\* succeed (not a debug run) ends with every row the source returns stored,
\* the rows an earlier run lost to a failed write or a crash among them, and
\* has appended no row whose key the sink held when the run started
C20_LaterRunRepairs ==
    (script = "rev3" /\ run > 1 /\ pc = "done" /\ ~debug /\ ~hist.idxFail /\ WritesOk) =>
        /\ \A i \in DOMAIN Answer(1) :
              rev3_rows(Answer(1))[i].unique_key \in SinkKeys(sink)
        /\ \A i \in DOMAIN Appended :
              Appended[i].unique_key \notin SinkKeys(SinkAtStart)

\* the earlier run stored one page and lost another to a failed write; the
\* later run has skipped the stored rows and appended the lost ones
C20_Witness ==
    /\ script = "rev3"
    /\ run > 1
    /\ pc = "done"
    /\ ~debug
    /\ ~hist.idxFail
    /\ WritesOk
    /\ hist.wf0 > 0
    /\ SinkAtStart # <<>>
    /\ Appended # <<>>
    /\ Len(reqLog) > 1

\* two texts that are equal up to surrounding blanks and letter case
SameText(a, b) == py_lower(py_strip(OrEmpty(a))) = py_lower(py_strip(OrEmpty(b)))

\* two pages that are equal up to surrounding blanks, letter case and one
\* trailing '/'
SamePage(a, b) ==
    LET x == py_lower(py_strip(OrEmpty(a)))
        y == py_lower(py_strip(OrEmpty(b)))
    IN  x = y \/ x = y \o <<Slash>> \/ y = x \o <<Slash>>

\* C22: every key function named stable_key gives one key to two rows whose
\* queries are equal up to blanks and case, whose pages are equal up to blanks,
\* case and one trailing '/', and whose dates agree on their first ten
\* characters
C22_StableKeyNormalizes ==
    (/\ script \in {"rev3", "gsc-to-bq", "test_hash"}
     /\ Len(acc_rows) >= 2
     /\ SameText(batch_new[1].Query, batch_new[2].Query)
     /\ SamePage(batch_new[1].Page, batch_new[2].Page)
     /\ py_prefix(batch_new[1].Date, 10) = py_prefix(batch_new[2].Date, 10)) =>
        acc_rows[1].unique_key = acc_rows[2].unique_key

\* C23: the page normalization strips one trailing '/' and no more: two rows
\* that are equal but for their pages, one page being the other followed by
\* two '/', get different keys (where the page is part of the key)
C23_OneTrailingSlashOnly ==
    (/\ script \in {"rev3", "web"}
     /\ script = "web" => reqLog[1].pass \in {1, 2, 6, 7}
     /\ Len(acc_rows) >= 2
     /\ batch_new[1].Page = batch_new[2].Page \o <<Slash, Slash>>
     /\ [batch_new[1] EXCEPT !.Page = None] = [batch_new[2] EXCEPT !.Page = None]) =>
        acc_rows[1].unique_key # acc_rows[2].unique_key

\* C24: generate_expanded_unique_key gives different keys to two rows keyed
\* under two different dimension sets, whatever the rows
C24_DimensionSetsSeparateKeys ==
    (/\ script = "web"
     /\ Len(acc_rows) >= 2
     /\ web_dims(reqLog[1].pass) # web_dims(reqLog[2].pass)) =>
        acc_rows[1].unique_key # acc_rows[2].unique_key

\* C25: in the per-day SearchAppearance fetch a day whose request raised is
\* flagged as a fetch error and gets the __NO_APPEARANCE__ placeholder exactly
\* as an empty day does: appended unless its key is already in the Dedup Index
C25_RaisedDayGetsPlaceholder ==
    [][(script = "sa" /\ pc = "fetch" /\ srcFails' = srcFails + 1) =>
          /\ pass \in hist'.fetch_error
          /\ acc_rows' = IF sa_placeholder_key(pass) \in existing_keys
                         THEN acc_rows
                         ELSE acc_rows \o <<sa_placeholder(pass)>>
          /\ sa_placeholder_key(pass) \in existing_keys']_vars

C25_Witness ==
    /\ script = "sa"
    /\ \E n \in hist.fetch_error :
          /\ Answer(n) # <<>>
          /\ \E i \in DOMAIN acc_rows :
                /\ acc_rows[i].unique_key = sa_placeholder_key(n)
                /\ acc_rows[i].SearchAppearance = NO_APPEARANCE

\* C26: every placeholder row the gap-fill creates (the per-day SearchAppearance
\* fetch, the sitewide pass of the web and of the others script) has Clicks,
\* Impressions, CTR and Position equal to zero and carries the reserved
\* sentinel: __NO_APPEARANCE__ in SearchAppearance for the SearchAppearance
\* loader, __SITE_TOTAL__ in Query and Page for the sitewide pass
C26_PlaceholdersAreZeroSentinels ==
    \A i \in DOMAIN hist.placeholders :
        LET r == hist.placeholders[i]
        IN  /\ r.Clicks = 0 /\ r.Impressions = 0 /\ r.CTR = 0 /\ r.Position = 0
            /\ script = "sa" => r.SearchAppearance = NO_APPEARANCE
            /\ script \in {"web", "others"} => r.Query = SITE_TOTAL /\ r.Page = SITE_TOTAL

C26_Witness ==
    /\ script = "web"
    /\ hist.placeholders # <<>>
    /\ \E i \in DOMAIN acc_rows : acc_rows[i].Query = SITE_TOTAL /\ acc_rows[i].Impressions > 0

\* C27: the web sitewide pass is an upsert: after a complete non-debug run
\* whose sink reads and writes all succeeded, a sitewide row the sink already
\* held for a date the source now reports carries the metrics the source
\* reports for that date
C27_SitewideUpsert ==
    (script = "web" /\ CleanRun) =>
        \A i \in DOMAIN SinkAtStart : \A j \in DOMAIN Answer(8) :
            (/\ SinkAtStart[i].Query = SITE_TOTAL
             /\ SinkAtStart[i].Date = Answer(8)[j].keys[1]) =>
                /\ SinkAtStart[i].Clicks = Answer(8)[j].clicks
                /\ SinkAtStart[i].Impressions = Answer(8)[j].impressions

\* C28: in the others script, a complete non-debug run that starts from an
\* empty sink and in which no request and no sink operation fails leaves, for each search type and
\* each date the source reports for that search type, exactly one
\* __SITE_TOTAL__ row of that search type and date in the sink
C28_SitewideRowPerSearchType ==
    (/\ script = "others" /\ pc = "done" /\ ~debug /\ hist.sink0 = 0
     /\ WritesOk /\ ~hist.idxFail /\ hist.aborted = {} /\ srcFails = 0) =>
        \A p \in 19 .. 21 : \A j \in DOMAIN Answer(p) :
            Cardinality({i \in DOMAIN sink :
                            /\ sink[i].Query = SITE_TOTAL
                            /\ sink[i].SearchType = others_stype(p)
                            /\ sink[i].Date = Answer(p)[j].keys[1]}) = 1

\* C29: the enhancements loader loads with dedupe: when a complete non-debug
\* run whose reads and writes all succeeded is followed by another such run
\* over the same folder, the second run appends no row to the table
C29_SecondLoadAppendsNothing ==
    (script = "enh" /\ run > 1 /\ hist.prevClean /\ CleanRun) => Appended = <<>>

\* C30: direct_allocation returns at most one row for each combination of
\* SearchAppearance, TargetEntity and fetch_id, whatever the raw frame and the
\* mapping, also when the raw frame holds one SearchAppearance on several
\* dates under one fetch_id
C30_OneRowPerAllocationTriple ==
    pc = "allocated" =>
        \A i \in DOMAIN acc_rows : \A j \in DOMAIN acc_rows :
            (/\ acc_rows[i].SearchAppearance = acc_rows[j].SearchAppearance
             /\ acc_rows[i].TargetEntity = acc_rows[j].TargetEntity
             /\ acc_rows[i].fetch_id = acc_rows[j].fetch_id) => i = j

C30_Witness ==
    /\ pc = "allocated"
    /\ Len(batch_new) = 2
    /\ batch_new[1].SearchAppearance = batch_new[2].SearchAppearance
    /\ batch_new[1].fetch_id = batch_new[2].fetch_id
    /\ batch_new[1].Date # batch_new[2].Date
    /\ Len(acc_rows) = 1
    /\ acc_rows[1].Clicks_alloc = batch_new[1].Clicks

\* C31: upload_to_bq coerces the metric columns before it writes: in the rows
\* a successful non-debug upload stores, a metric cell that held a number
\* holds the same number, a cell that held None or a text that is no number
\* holds 0, and every row of the frame is stored, whatever its cells held
\* (hist.handed is the frame as the caller handed it, batch_new the caller's
\* frame after the call)
C31_MetricCellsCoerced ==
    (pc = "uploaded" /\ ~debug /\ writeFails = 0) =>
        /\ Len(sink) = Len(hist.handed)
        /\ \A i \in DOMAIN sink : \A c \in sa_numeric_cols(hist.handed[i]) :
              LET v == hist.handed[i][c]
              IN  /\ v >= 0 => sink[i][c] = v
                  /\ v \in {MetricCell("none", 0), MetricCell("text", 0)} => sink[i][c] = 0
                  /\ sink[i][c] >= 0

\* a frame whose first row had a text and a None among its metric cells was
\* stored with 0 in their place
C31_Witness ==
    /\ pc = "uploaded" /\ ~debug /\ writeFails = 0
    /\ Len(sink) = 2
    /\ hist.handed[1].Clicks = MetricCell("text", 0) /\ sink[1].Clicks = 0
    /\ hist.handed[1].CTR = MetricCell("none", 0) /\ sink[1].CTR = 0
    /\ hist.handed[1].Impressions = 1 /\ sink[1].Impressions = 1

\* C32: with a finite source and every page request answered after finitely
\* many failures, a run of the web script that has begun leaves every fetch
\* loop, runs the sitewide gap-fill and reaches its final summary
C32_RunReachesSummary ==
    (script = "web" /\ pc = "load_keys") ~> (pc = "done")

\* the request of fetch loop p of the running script
LoopRequest(p) == IF script = "rev3" THEN rev3_request ELSE others_request(p)

\* the number of rows the source returned to the i-th request of the log
ReqRows(i) ==
    IF reqLog[i].ok
    THEN Len(query(script, data, LoopRequest(reqLog[i].pass), reqLog[i].startRow))
    ELSE 0

RECURSIVE SumRows(_)
SumRows(i) == IF i = 0 THEN 0 ELSE SumRows(i - 1) + ReqRows(i)

\* C33: in every paged fetch loop of rev3 and of the others script the first
\* request of the loop has startRow 0, startRow never decreases from one
\* request to the next, and the startRow of every request is the number of
\* rows the earlier successful requests of the loop returned
C33_CursorCountsReturnedRows ==
    script \in {"rev3", "others"} =>
        \A i \in DOMAIN reqLog :
            /\ i = 1 => reqLog[i].startRow = 0
            /\ i > 1 => reqLog[i - 1].startRow <= reqLog[i].startRow
            /\ reqLog[i].pass = reqLog[1].pass
            /\ reqLog[i].startRow = SumRows(i - 1)

C33_Witness ==
    /\ script = "others"
    /\ reqLog # <<>> /\ reqLog[1].pass > 1
    /\ \E i \in DOMAIN reqLog :
          /\ i + 1 \in DOMAIN reqLog
          /\ ~reqLog[i].ok /\ reqLog[i].startRow = ROW_LIMIT
          /\ reqLog[i + 1].ok /\ reqLog[i + 1].startRow = ROW_LIMIT

\* C34: a failed source request of the web script changes nothing the run
\* works with: start_row, the Dedup Index, the sink, the rows collected so far
\* and the inserted tallies are the same at the retry, and the retry is the
\* same request of the same loop
C34_FailedRequestChangesNothing ==
    [][(script = "web" /\ srcFails' # srcFails) =>
          /\ UNCHANGED <<start_row, existing_keys, existing_bq_keys, sink, inserted,
                         acc_rows, batch_new, pass, pc>>
          /\ reqLog' # <<>> /\ ~reqLog'[Len(reqLog')].ok]_vars

C34_Witness ==
    /\ script = "web" /\ pc = "fetch" /\ srcFails > 0
    /\ start_row = ROW_LIMIT /\ existing_keys # {} /\ sink # <<>> /\ inserted.main > 0
    /\ reqLog # <<>> /\ ~reqLog[Len(reqLog)].ok

\* C35: at the end of a non-debug run of the web script every key of the
\* Dedup Index is the key of a row stored in the sink
C35_IndexKeysArePersisted ==
    (script = "web" /\ pc = "done" /\ ~debug) => existing_keys \subseteq SinkKeys(sink)

\* C36: when two runs of the SearchAppearance script over the same date range
\* overlap in time on the same table, the table never holds two rows with the
\* same unique_key
C36_OverlappingRunsKeepKeysUnique ==
    \A i \in DOMAIN sink : \A j \in DOMAIN sink :
        i # j => sink[i].unique_key # sink[j].unique_key

\* the rows the running script builds from the page it is about to request
PageRows ==
    IF script = "rev3" THEN rev3_rows(query(script, data, rev3_request, start_row))
    ELSE LET rows == query(script, data, web_request(pass), start_row)
         IN  [i \in DOMAIN rows |-> web_main_row(rows[i], pass)]

\* C37: when a fetch loop of rev3 or of fetch_gsc_data of the web script is
\* answered with a page of rows whose keys are all in the Dedup Index already, the step
\* makes no write, leaves the sink, the Dedup Index and the inserted tallies
\* as they are, and only moves the cursor: on by the page's length after a
\* full page, out of the loop after a short one
C37_DuplicatePageOnlyAdvances ==
    [][(/\ script \in {"rev3", "web"} /\ pc = "fetch"
        /\ script = "web" => pass \in 1 .. 5
        /\ srcFails' = srcFails /\ reqLog' # reqLog
        /\ PageRows # <<>>
        /\ \A i \in DOMAIN PageRows : PageRows[i].unique_key \in existing_keys)
       => /\ UNCHANGED <<sink, existing_keys, inserted, writeFails>>
          /\ pc' # "upload" /\ batch_new' = <<>>
          /\ IF Len(PageRows) = ROW_LIMIT
             THEN pc' = "fetch" /\ pass' = pass /\ start_row' = start_row + ROW_LIMIT
             ELSE pc' # "fetch" \/ pass' # pass]_vars

C37_Witness ==
    /\ script = "rev3" /\ ~debug /\ writeFails = 0 /\ pc # "upload"
    /\ Len(Answers["web", data, rev3_request]) > ROW_LIMIT
    /\ reqLog # <<>> /\ reqLog[Len(reqLog)].ok /\ reqLog[Len(reqLog)].startRow = ROW_LIMIT
    /\ batch_new = <<>>
    /\ Len(sink) = ROW_LIMIT /\ existing_keys = SinkKeys(sink)

\* the number of rows the source holds for the request of rev3
SourceTotal == Len(Answers["web", data, rev3_request])

\* the requests of the log that were answered
Answered(log) == {i \in DOMAIN log : log[i].ok}

\* C38: when the source holds exactly m * ROW_LIMIT rows (m >= 1), the fetch
\* loop of rev3 ends on its (m + 1)-th answered request: that request has
\* startRow m * ROW_LIMIT, is answered with no rows, and the step that ends
\* the loop writes nothing
C38_ExactMultipleEndsOnEmptyPage ==
    [][(/\ script = "rev3" /\ pc = "fetch" /\ pc' = "done"
        /\ SourceTotal >= ROW_LIMIT /\ SourceTotal % ROW_LIMIT = 0)
       => /\ start_row = SourceTotal
          /\ query(script, data, rev3_request, start_row) = <<>>
          /\ Cardinality(Answered(reqLog')) = (SourceTotal \div ROW_LIMIT) + 1
          /\ reqLog'[Len(reqLog')] = Req(pass, SourceTotal, TRUE)
          /\ UNCHANGED <<sink, existing_keys, inserted, writeFails, batch_new>>]_vars

C38_Witness ==
    /\ script = "rev3" /\ pc = "done"
    /\ SourceTotal = 2 * ROW_LIMIT
    /\ Cardinality(Answered(reqLog)) = 3
    /\ reqLog[Len(reqLog)] = Req(pass, 2 * ROW_LIMIT, TRUE)
    /\ Len(sink) = SourceTotal

\* C39: across the runs of the per-day SearchAppearance script the sink never
\* holds a __NO_APPEARANCE__ placeholder and a real row for the same Date
C39_NoPlaceholderBesideRealRow ==
    script = "sa" =>
        \A i \in DOMAIN sink : \A j \in DOMAIN sink :
            (sink[i].Date = sink[j].Date /\ sink[i].SearchAppearance = NO_APPEARANCE)
                => sink[j].SearchAppearance = NO_APPEARANCE

\* C40: at the end of a run of the incremental loader (Rev 4) the number
\* printed as "Total new rows" is the number of rows the run found new and
\* uploaded: in a non-debug run whose writes all succeeded, the number of
\* rows the run appended to the sink
C40_TotalNewRowsReported ==
    (script = "rev4" /\ pc = "done" /\ ~debug /\ writeFails = hist.wf0) =>
        inserted.main = Len(sink) - hist.sink0

====
